---- MODULE Spec2Model ----
(***************************************************************************)
(* Model of the SQL agent's validation / execution pipeline                *)
(* (src/server.js): validateQuery, formatQueryResult,                      *)
(* executeCustomSQLTool.execute running against a mysql2 pool, and the     *)
(* POST /api/agent handler that calls it.                                  *)
(*                                                                         *)
(* A JavaScript string is a sequence of characters.  An ASCII character is *)
(* the one-character string that holds it; a character outside ASCII is    *)
(* the string that names its code point, "U" followed by the code point in *)
(* hexadecimal ("U00E9", "U2028", "U10428"), so that a text means the same *)
(* under every encoding the module is read with.  A surrogate that stands  *)
(* alone is named like a character ("UD83D"); where the code compares code *)
(* units, a character beyond the basic plane counts as its two surrogates. *)
(*                                                                         *)
(* Every await is one step of the call that is suspended at it: the        *)
(* completion of the awaited call (with or without an error) followed by   *)
(* the synchronous code up to the next await, return or throw.  The        *)
(* handler that awaits getDatabaseSchema or generateSQLQuery resumes in a  *)
(* step of its own, after the function has returned or thrown.             *)
(***************************************************************************)
EXTENDS Integers, Sequences, FiniteSets, TLC

(***************************************************************************)
(* Bounds of the model.                                                    *)
(***************************************************************************)
\* longest plan (number of statements in `queries`)
MaxQueries == 2
\* number of driver calls that may raise an error during one run
MaxFaults == 2
\* number of connections the pool holds: the pool of lines 16-18 has the
\* driver's default limit, which exceeds the number of calls in flight, so
\* every call of the model can hold a connection of its own
NumConns == 2
\* longest sequence of rows the driver answers with
MaxRows == 2

(***************************************************************************)
(* JavaScript strings.                                                     *)
(***************************************************************************)
LowerCase == <<"a", "b", "c", "d", "e", "f", "g", "h", "i", "j", "k", "l", "m",
               "n", "o", "p", "q", "r", "s", "t", "u", "v", "w", "x", "y", "z">>
UpperCase == <<"A", "B", "C", "D", "E", "F", "G", "H", "I", "J", "K", "L", "M",
               "N", "O", "P", "Q", "R", "S", "T", "U", "V", "W", "X", "Y", "Z">>

\* the upper-case form of each lower-case ASCII letter
UpperOf ==
    [c \in {LowerCase[i] : i \in 1..Len(LowerCase)} |->
        UpperCase[CHOOSE i \in 1..Len(LowerCase) : LowerCase[i] = c]]

\* the upper-case form of each character outside ASCII that has one (the full
\* case mapping of Unicode: one character may give several)
UnicodeUpper ==
    [U00B5 |-> <<"U039C">>, U00DF |-> <<"S", "S">>, U00E0 |-> <<"U00C0">>,
     U00E1 |-> <<"U00C1">>, U00E2 |-> <<"U00C2">>, U00E3 |-> <<"U00C3">>,
     U00E4 |-> <<"U00C4">>, U00E5 |-> <<"U00C5">>, U00E6 |-> <<"U00C6">>,
     U00E7 |-> <<"U00C7">>, U00E8 |-> <<"U00C8">>, U00E9 |-> <<"U00C9">>,
     U00EA |-> <<"U00CA">>, U00EB |-> <<"U00CB">>, U00EC |-> <<"U00CC">>,
     U00ED |-> <<"U00CD">>, U00EE |-> <<"U00CE">>, U00EF |-> <<"U00CF">>,
     U00F0 |-> <<"U00D0">>, U00F1 |-> <<"U00D1">>, U00F2 |-> <<"U00D2">>,
     U00F3 |-> <<"U00D3">>, U00F4 |-> <<"U00D4">>, U00F5 |-> <<"U00D5">>,
     U00F6 |-> <<"U00D6">>, U00F8 |-> <<"U00D8">>, U00F9 |-> <<"U00D9">>,
     U00FA |-> <<"U00DA">>, U00FB |-> <<"U00DB">>, U00FC |-> <<"U00DC">>,
     U00FD |-> <<"U00DD">>, U00FE |-> <<"U00DE">>, U00FF |-> <<"U0178">>,
     U0101 |-> <<"U0100">>, U0103 |-> <<"U0102">>, U0105 |-> <<"U0104">>,
     U0107 |-> <<"U0106">>, U0109 |-> <<"U0108">>, U010B |-> <<"U010A">>,
     U010D |-> <<"U010C">>, U010F |-> <<"U010E">>, U0111 |-> <<"U0110">>,
     U0113 |-> <<"U0112">>, U0115 |-> <<"U0114">>, U0117 |-> <<"U0116">>,
     U0119 |-> <<"U0118">>, U011B |-> <<"U011A">>, U011D |-> <<"U011C">>,
     U011F |-> <<"U011E">>, U0121 |-> <<"U0120">>, U0123 |-> <<"U0122">>,
     U0125 |-> <<"U0124">>, U0127 |-> <<"U0126">>, U0129 |-> <<"U0128">>,
     U012B |-> <<"U012A">>, U012D |-> <<"U012C">>, U012F |-> <<"U012E">>,
     U0131 |-> <<"I">>, U0133 |-> <<"U0132">>, U0135 |-> <<"U0134">>,
     U0137 |-> <<"U0136">>, U013A |-> <<"U0139">>, U013C |-> <<"U013B">>,
     U013E |-> <<"U013D">>, U0140 |-> <<"U013F">>, U0142 |-> <<"U0141">>,
     U0144 |-> <<"U0143">>, U0146 |-> <<"U0145">>, U0148 |-> <<"U0147">>,
     U0149 |-> <<"U02BC", "N">>, U014B |-> <<"U014A">>, U014D |-> <<"U014C">>,
     U014F |-> <<"U014E">>, U0151 |-> <<"U0150">>, U0153 |-> <<"U0152">>,
     U0155 |-> <<"U0154">>, U0157 |-> <<"U0156">>, U0159 |-> <<"U0158">>,
     U015B |-> <<"U015A">>, U015D |-> <<"U015C">>, U015F |-> <<"U015E">>,
     U0161 |-> <<"U0160">>, U0163 |-> <<"U0162">>, U0165 |-> <<"U0164">>,
     U0167 |-> <<"U0166">>, U0169 |-> <<"U0168">>, U016B |-> <<"U016A">>,
     U016D |-> <<"U016C">>, U016F |-> <<"U016E">>, U0171 |-> <<"U0170">>,
     U0173 |-> <<"U0172">>, U0175 |-> <<"U0174">>, U0177 |-> <<"U0176">>,
     U017A |-> <<"U0179">>, U017C |-> <<"U017B">>, U017E |-> <<"U017D">>,
     U017F |-> <<"S">>, U0180 |-> <<"U0243">>, U0183 |-> <<"U0182">>,
     U0185 |-> <<"U0184">>, U0188 |-> <<"U0187">>, U018C |-> <<"U018B">>,
     U0192 |-> <<"U0191">>, U0195 |-> <<"U01F6">>, U0199 |-> <<"U0198">>,
     U019A |-> <<"U023D">>, U019E |-> <<"U0220">>, U01A1 |-> <<"U01A0">>,
     U01A3 |-> <<"U01A2">>, U01A5 |-> <<"U01A4">>, U01A8 |-> <<"U01A7">>,
     U01AD |-> <<"U01AC">>, U01B0 |-> <<"U01AF">>, U01B4 |-> <<"U01B3">>,
     U01B6 |-> <<"U01B5">>, U01B9 |-> <<"U01B8">>, U01BD |-> <<"U01BC">>,
     U01BF |-> <<"U01F7">>, U01C5 |-> <<"U01C4">>, U01C6 |-> <<"U01C4">>,
     U01C8 |-> <<"U01C7">>, U01C9 |-> <<"U01C7">>, U01CB |-> <<"U01CA">>,
     U01CC |-> <<"U01CA">>, U01CE |-> <<"U01CD">>, U01D0 |-> <<"U01CF">>,
     U01D2 |-> <<"U01D1">>, U01D4 |-> <<"U01D3">>, U01D6 |-> <<"U01D5">>,
     U01D8 |-> <<"U01D7">>, U01DA |-> <<"U01D9">>, U01DC |-> <<"U01DB">>,
     U01DD |-> <<"U018E">>, U01DF |-> <<"U01DE">>, U01E1 |-> <<"U01E0">>,
     U01E3 |-> <<"U01E2">>, U01E5 |-> <<"U01E4">>, U01E7 |-> <<"U01E6">>,
     U01E9 |-> <<"U01E8">>, U01EB |-> <<"U01EA">>, U01ED |-> <<"U01EC">>,
     U01EF |-> <<"U01EE">>, U01F0 |-> <<"J", "U030C">>, U01F2 |-> <<"U01F1">>,
     U01F3 |-> <<"U01F1">>, U01F5 |-> <<"U01F4">>, U01F9 |-> <<"U01F8">>,
     U01FB |-> <<"U01FA">>, U01FD |-> <<"U01FC">>, U01FF |-> <<"U01FE">>,
     U0201 |-> <<"U0200">>, U0203 |-> <<"U0202">>, U0205 |-> <<"U0204">>,
     U0207 |-> <<"U0206">>, U0209 |-> <<"U0208">>, U020B |-> <<"U020A">>,
     U020D |-> <<"U020C">>, U020F |-> <<"U020E">>, U0211 |-> <<"U0210">>,
     U0213 |-> <<"U0212">>, U0215 |-> <<"U0214">>, U0217 |-> <<"U0216">>,
     U0219 |-> <<"U0218">>, U021B |-> <<"U021A">>, U021D |-> <<"U021C">>,
     U021F |-> <<"U021E">>, U0223 |-> <<"U0222">>, U0225 |-> <<"U0224">>,
     U0227 |-> <<"U0226">>, U0229 |-> <<"U0228">>, U022B |-> <<"U022A">>,
     U022D |-> <<"U022C">>, U022F |-> <<"U022E">>, U0231 |-> <<"U0230">>,
     U0233 |-> <<"U0232">>, U023C |-> <<"U023B">>, U023F |-> <<"U2C7E">>,
     U0240 |-> <<"U2C7F">>, U0242 |-> <<"U0241">>, U0247 |-> <<"U0246">>,
     U0249 |-> <<"U0248">>, U024B |-> <<"U024A">>, U024D |-> <<"U024C">>,
     U024F |-> <<"U024E">>, U0250 |-> <<"U2C6F">>, U0251 |-> <<"U2C6D">>,
     U0252 |-> <<"U2C70">>, U0253 |-> <<"U0181">>, U0254 |-> <<"U0186">>,
     U0256 |-> <<"U0189">>, U0257 |-> <<"U018A">>, U0259 |-> <<"U018F">>,
     U025B |-> <<"U0190">>, U025C |-> <<"UA7AB">>, U0260 |-> <<"U0193">>,
     U0261 |-> <<"UA7AC">>, U0263 |-> <<"U0194">>, U0265 |-> <<"UA78D">>,
     U0266 |-> <<"UA7AA">>, U0268 |-> <<"U0197">>, U0269 |-> <<"U0196">>,
     U026A |-> <<"UA7AE">>, U026B |-> <<"U2C62">>, U026C |-> <<"UA7AD">>,
     U026F |-> <<"U019C">>, U0271 |-> <<"U2C6E">>, U0272 |-> <<"U019D">>,
     U0275 |-> <<"U019F">>, U027D |-> <<"U2C64">>, U0280 |-> <<"U01A6">>,
     U0282 |-> <<"UA7C5">>, U0283 |-> <<"U01A9">>, U0287 |-> <<"UA7B1">>,
     U0288 |-> <<"U01AE">>, U0289 |-> <<"U0244">>, U028A |-> <<"U01B1">>,
     U028B |-> <<"U01B2">>, U028C |-> <<"U0245">>, U0292 |-> <<"U01B7">>,
     U029D |-> <<"UA7B2">>, U029E |-> <<"UA7B0">>, U0345 |-> <<"U0399">>,
     U0371 |-> <<"U0370">>, U0373 |-> <<"U0372">>, U0377 |-> <<"U0376">>,
     U037B |-> <<"U03FD">>, U037C |-> <<"U03FE">>, U037D |-> <<"U03FF">>,
     U0390 |-> <<"U0399", "U0308", "U0301">>, U03AC |-> <<"U0386">>,
     U03AD |-> <<"U0388">>, U03AE |-> <<"U0389">>, U03AF |-> <<"U038A">>,
     U03B0 |-> <<"U03A5", "U0308", "U0301">>, U03B1 |-> <<"U0391">>,
     U03B2 |-> <<"U0392">>, U03B3 |-> <<"U0393">>, U03B4 |-> <<"U0394">>,
     U03B5 |-> <<"U0395">>, U03B6 |-> <<"U0396">>, U03B7 |-> <<"U0397">>,
     U03B8 |-> <<"U0398">>, U03B9 |-> <<"U0399">>, U03BA |-> <<"U039A">>,
     U03BB |-> <<"U039B">>, U03BC |-> <<"U039C">>, U03BD |-> <<"U039D">>,
     U03BE |-> <<"U039E">>, U03BF |-> <<"U039F">>, U03C0 |-> <<"U03A0">>,
     U03C1 |-> <<"U03A1">>, U03C2 |-> <<"U03A3">>, U03C3 |-> <<"U03A3">>,
     U03C4 |-> <<"U03A4">>, U03C5 |-> <<"U03A5">>, U03C6 |-> <<"U03A6">>,
     U03C7 |-> <<"U03A7">>, U03C8 |-> <<"U03A8">>, U03C9 |-> <<"U03A9">>,
     U03CA |-> <<"U03AA">>, U03CB |-> <<"U03AB">>, U03CC |-> <<"U038C">>,
     U03CD |-> <<"U038E">>, U03CE |-> <<"U038F">>, U03D0 |-> <<"U0392">>,
     U03D1 |-> <<"U0398">>, U03D5 |-> <<"U03A6">>, U03D6 |-> <<"U03A0">>,
     U03D7 |-> <<"U03CF">>, U03D9 |-> <<"U03D8">>, U03DB |-> <<"U03DA">>,
     U03DD |-> <<"U03DC">>, U03DF |-> <<"U03DE">>, U03E1 |-> <<"U03E0">>,
     U03E3 |-> <<"U03E2">>, U03E5 |-> <<"U03E4">>, U03E7 |-> <<"U03E6">>,
     U03E9 |-> <<"U03E8">>, U03EB |-> <<"U03EA">>, U03ED |-> <<"U03EC">>,
     U03EF |-> <<"U03EE">>, U03F0 |-> <<"U039A">>, U03F1 |-> <<"U03A1">>,
     U03F2 |-> <<"U03F9">>, U03F3 |-> <<"U037F">>, U03F5 |-> <<"U0395">>,
     U03F8 |-> <<"U03F7">>, U03FB |-> <<"U03FA">>, U0430 |-> <<"U0410">>,
     U0431 |-> <<"U0411">>, U0432 |-> <<"U0412">>, U0433 |-> <<"U0413">>,
     U0434 |-> <<"U0414">>, U0435 |-> <<"U0415">>, U0436 |-> <<"U0416">>,
     U0437 |-> <<"U0417">>, U0438 |-> <<"U0418">>, U0439 |-> <<"U0419">>,
     U043A |-> <<"U041A">>, U043B |-> <<"U041B">>, U043C |-> <<"U041C">>,
     U043D |-> <<"U041D">>, U043E |-> <<"U041E">>, U043F |-> <<"U041F">>,
     U0440 |-> <<"U0420">>, U0441 |-> <<"U0421">>, U0442 |-> <<"U0422">>,
     U0443 |-> <<"U0423">>, U0444 |-> <<"U0424">>, U0445 |-> <<"U0425">>,
     U0446 |-> <<"U0426">>, U0447 |-> <<"U0427">>, U0448 |-> <<"U0428">>,
     U0449 |-> <<"U0429">>, U044A |-> <<"U042A">>, U044B |-> <<"U042B">>,
     U044C |-> <<"U042C">>, U044D |-> <<"U042D">>, U044E |-> <<"U042E">>,
     U044F |-> <<"U042F">>, U0450 |-> <<"U0400">>, U0451 |-> <<"U0401">>,
     U0452 |-> <<"U0402">>, U0453 |-> <<"U0403">>, U0454 |-> <<"U0404">>,
     U0455 |-> <<"U0405">>, U0456 |-> <<"U0406">>, U0457 |-> <<"U0407">>,
     U0458 |-> <<"U0408">>, U0459 |-> <<"U0409">>, U045A |-> <<"U040A">>,
     U045B |-> <<"U040B">>, U045C |-> <<"U040C">>, U045D |-> <<"U040D">>,
     U045E |-> <<"U040E">>, U045F |-> <<"U040F">>, U0461 |-> <<"U0460">>,
     U0463 |-> <<"U0462">>, U0465 |-> <<"U0464">>, U0467 |-> <<"U0466">>,
     U0469 |-> <<"U0468">>, U046B |-> <<"U046A">>, U046D |-> <<"U046C">>,
     U046F |-> <<"U046E">>, U0471 |-> <<"U0470">>, U0473 |-> <<"U0472">>,
     U0475 |-> <<"U0474">>, U0477 |-> <<"U0476">>, U0479 |-> <<"U0478">>,
     U047B |-> <<"U047A">>, U047D |-> <<"U047C">>, U047F |-> <<"U047E">>,
     U0481 |-> <<"U0480">>, U048B |-> <<"U048A">>, U048D |-> <<"U048C">>,
     U048F |-> <<"U048E">>, U0491 |-> <<"U0490">>, U0493 |-> <<"U0492">>,
     U0495 |-> <<"U0494">>, U0497 |-> <<"U0496">>, U0499 |-> <<"U0498">>,
     U049B |-> <<"U049A">>, U049D |-> <<"U049C">>, U049F |-> <<"U049E">>,
     U04A1 |-> <<"U04A0">>, U04A3 |-> <<"U04A2">>, U04A5 |-> <<"U04A4">>,
     U04A7 |-> <<"U04A6">>, U04A9 |-> <<"U04A8">>, U04AB |-> <<"U04AA">>,
     U04AD |-> <<"U04AC">>, U04AF |-> <<"U04AE">>, U04B1 |-> <<"U04B0">>,
     U04B3 |-> <<"U04B2">>, U04B5 |-> <<"U04B4">>, U04B7 |-> <<"U04B6">>,
     U04B9 |-> <<"U04B8">>, U04BB |-> <<"U04BA">>, U04BD |-> <<"U04BC">>,
     U04BF |-> <<"U04BE">>, U04C2 |-> <<"U04C1">>, U04C4 |-> <<"U04C3">>,
     U04C6 |-> <<"U04C5">>, U04C8 |-> <<"U04C7">>, U04CA |-> <<"U04C9">>,
     U04CC |-> <<"U04CB">>, U04CE |-> <<"U04CD">>, U04CF |-> <<"U04C0">>,
     U04D1 |-> <<"U04D0">>, U04D3 |-> <<"U04D2">>, U04D5 |-> <<"U04D4">>,
     U04D7 |-> <<"U04D6">>, U04D9 |-> <<"U04D8">>, U04DB |-> <<"U04DA">>,
     U04DD |-> <<"U04DC">>, U04DF |-> <<"U04DE">>, U04E1 |-> <<"U04E0">>,
     U04E3 |-> <<"U04E2">>, U04E5 |-> <<"U04E4">>, U04E7 |-> <<"U04E6">>,
     U04E9 |-> <<"U04E8">>, U04EB |-> <<"U04EA">>, U04ED |-> <<"U04EC">>,
     U04EF |-> <<"U04EE">>, U04F1 |-> <<"U04F0">>, U04F3 |-> <<"U04F2">>,
     U04F5 |-> <<"U04F4">>, U04F7 |-> <<"U04F6">>, U04F9 |-> <<"U04F8">>,
     U04FB |-> <<"U04FA">>, U04FD |-> <<"U04FC">>, U04FF |-> <<"U04FE">>,
     U0501 |-> <<"U0500">>, U0503 |-> <<"U0502">>, U0505 |-> <<"U0504">>,
     U0507 |-> <<"U0506">>, U0509 |-> <<"U0508">>, U050B |-> <<"U050A">>,
     U050D |-> <<"U050C">>, U050F |-> <<"U050E">>, U0511 |-> <<"U0510">>,
     U0513 |-> <<"U0512">>, U0515 |-> <<"U0514">>, U0517 |-> <<"U0516">>,
     U0519 |-> <<"U0518">>, U051B |-> <<"U051A">>, U051D |-> <<"U051C">>,
     U051F |-> <<"U051E">>, U0521 |-> <<"U0520">>, U0523 |-> <<"U0522">>,
     U0525 |-> <<"U0524">>, U0527 |-> <<"U0526">>, U0529 |-> <<"U0528">>,
     U052B |-> <<"U052A">>, U052D |-> <<"U052C">>, U052F |-> <<"U052E">>,
     U0561 |-> <<"U0531">>, U0562 |-> <<"U0532">>, U0563 |-> <<"U0533">>,
     U0564 |-> <<"U0534">>, U0565 |-> <<"U0535">>, U0566 |-> <<"U0536">>,
     U0567 |-> <<"U0537">>, U0568 |-> <<"U0538">>, U0569 |-> <<"U0539">>,
     U056A |-> <<"U053A">>, U056B |-> <<"U053B">>, U056C |-> <<"U053C">>,
     U056D |-> <<"U053D">>, U056E |-> <<"U053E">>, U056F |-> <<"U053F">>,
     U0570 |-> <<"U0540">>, U0571 |-> <<"U0541">>, U0572 |-> <<"U0542">>,
     U0573 |-> <<"U0543">>, U0574 |-> <<"U0544">>, U0575 |-> <<"U0545">>,
     U0576 |-> <<"U0546">>, U0577 |-> <<"U0547">>, U0578 |-> <<"U0548">>,
     U0579 |-> <<"U0549">>, U057A |-> <<"U054A">>, U057B |-> <<"U054B">>,
     U057C |-> <<"U054C">>, U057D |-> <<"U054D">>, U057E |-> <<"U054E">>,
     U057F |-> <<"U054F">>, U0580 |-> <<"U0550">>, U0581 |-> <<"U0551">>,
     U0582 |-> <<"U0552">>, U0583 |-> <<"U0553">>, U0584 |-> <<"U0554">>,
     U0585 |-> <<"U0555">>, U0586 |-> <<"U0556">>,
     U0587 |-> <<"U0535", "U0552">>, U10D0 |-> <<"U1C90">>,
     U10D1 |-> <<"U1C91">>, U10D2 |-> <<"U1C92">>, U10D3 |-> <<"U1C93">>,
     U10D4 |-> <<"U1C94">>, U10D5 |-> <<"U1C95">>, U10D6 |-> <<"U1C96">>,
     U10D7 |-> <<"U1C97">>, U10D8 |-> <<"U1C98">>, U10D9 |-> <<"U1C99">>,
     U10DA |-> <<"U1C9A">>, U10DB |-> <<"U1C9B">>, U10DC |-> <<"U1C9C">>,
     U10DD |-> <<"U1C9D">>, U10DE |-> <<"U1C9E">>, U10DF |-> <<"U1C9F">>,
     U10E0 |-> <<"U1CA0">>, U10E1 |-> <<"U1CA1">>, U10E2 |-> <<"U1CA2">>,
     U10E3 |-> <<"U1CA3">>, U10E4 |-> <<"U1CA4">>, U10E5 |-> <<"U1CA5">>,
     U10E6 |-> <<"U1CA6">>, U10E7 |-> <<"U1CA7">>, U10E8 |-> <<"U1CA8">>,
     U10E9 |-> <<"U1CA9">>, U10EA |-> <<"U1CAA">>, U10EB |-> <<"U1CAB">>,
     U10EC |-> <<"U1CAC">>, U10ED |-> <<"U1CAD">>, U10EE |-> <<"U1CAE">>,
     U10EF |-> <<"U1CAF">>, U10F0 |-> <<"U1CB0">>, U10F1 |-> <<"U1CB1">>,
     U10F2 |-> <<"U1CB2">>, U10F3 |-> <<"U1CB3">>, U10F4 |-> <<"U1CB4">>,
     U10F5 |-> <<"U1CB5">>, U10F6 |-> <<"U1CB6">>, U10F7 |-> <<"U1CB7">>,
     U10F8 |-> <<"U1CB8">>, U10F9 |-> <<"U1CB9">>, U10FA |-> <<"U1CBA">>,
     U10FD |-> <<"U1CBD">>, U10FE |-> <<"U1CBE">>, U10FF |-> <<"U1CBF">>,
     U13F8 |-> <<"U13F0">>, U13F9 |-> <<"U13F1">>, U13FA |-> <<"U13F2">>,
     U13FB |-> <<"U13F3">>, U13FC |-> <<"U13F4">>, U13FD |-> <<"U13F5">>,
     U1C80 |-> <<"U0412">>, U1C81 |-> <<"U0414">>, U1C82 |-> <<"U041E">>,
     U1C83 |-> <<"U0421">>, U1C84 |-> <<"U0422">>, U1C85 |-> <<"U0422">>,
     U1C86 |-> <<"U042A">>, U1C87 |-> <<"U0462">>, U1C88 |-> <<"UA64A">>,
     U1D79 |-> <<"UA77D">>, U1D7D |-> <<"U2C63">>, U1D8E |-> <<"UA7C6">>,
     U1E01 |-> <<"U1E00">>, U1E03 |-> <<"U1E02">>, U1E05 |-> <<"U1E04">>,
     U1E07 |-> <<"U1E06">>, U1E09 |-> <<"U1E08">>, U1E0B |-> <<"U1E0A">>,
     U1E0D |-> <<"U1E0C">>, U1E0F |-> <<"U1E0E">>, U1E11 |-> <<"U1E10">>,
     U1E13 |-> <<"U1E12">>, U1E15 |-> <<"U1E14">>, U1E17 |-> <<"U1E16">>,
     U1E19 |-> <<"U1E18">>, U1E1B |-> <<"U1E1A">>, U1E1D |-> <<"U1E1C">>,
     U1E1F |-> <<"U1E1E">>, U1E21 |-> <<"U1E20">>, U1E23 |-> <<"U1E22">>,
     U1E25 |-> <<"U1E24">>, U1E27 |-> <<"U1E26">>, U1E29 |-> <<"U1E28">>,
     U1E2B |-> <<"U1E2A">>, U1E2D |-> <<"U1E2C">>, U1E2F |-> <<"U1E2E">>,
     U1E31 |-> <<"U1E30">>, U1E33 |-> <<"U1E32">>, U1E35 |-> <<"U1E34">>,
     U1E37 |-> <<"U1E36">>, U1E39 |-> <<"U1E38">>, U1E3B |-> <<"U1E3A">>,
     U1E3D |-> <<"U1E3C">>, U1E3F |-> <<"U1E3E">>, U1E41 |-> <<"U1E40">>,
     U1E43 |-> <<"U1E42">>, U1E45 |-> <<"U1E44">>, U1E47 |-> <<"U1E46">>,
     U1E49 |-> <<"U1E48">>, U1E4B |-> <<"U1E4A">>, U1E4D |-> <<"U1E4C">>,
     U1E4F |-> <<"U1E4E">>, U1E51 |-> <<"U1E50">>, U1E53 |-> <<"U1E52">>,
     U1E55 |-> <<"U1E54">>, U1E57 |-> <<"U1E56">>, U1E59 |-> <<"U1E58">>,
     U1E5B |-> <<"U1E5A">>, U1E5D |-> <<"U1E5C">>, U1E5F |-> <<"U1E5E">>,
     U1E61 |-> <<"U1E60">>, U1E63 |-> <<"U1E62">>, U1E65 |-> <<"U1E64">>,
     U1E67 |-> <<"U1E66">>, U1E69 |-> <<"U1E68">>, U1E6B |-> <<"U1E6A">>,
     U1E6D |-> <<"U1E6C">>, U1E6F |-> <<"U1E6E">>, U1E71 |-> <<"U1E70">>,
     U1E73 |-> <<"U1E72">>, U1E75 |-> <<"U1E74">>, U1E77 |-> <<"U1E76">>,
     U1E79 |-> <<"U1E78">>, U1E7B |-> <<"U1E7A">>, U1E7D |-> <<"U1E7C">>,
     U1E7F |-> <<"U1E7E">>, U1E81 |-> <<"U1E80">>, U1E83 |-> <<"U1E82">>,
     U1E85 |-> <<"U1E84">>, U1E87 |-> <<"U1E86">>, U1E89 |-> <<"U1E88">>,
     U1E8B |-> <<"U1E8A">>, U1E8D |-> <<"U1E8C">>, U1E8F |-> <<"U1E8E">>,
     U1E91 |-> <<"U1E90">>, U1E93 |-> <<"U1E92">>, U1E95 |-> <<"U1E94">>,
     U1E96 |-> <<"H", "U0331">>, U1E97 |-> <<"T", "U0308">>,
     U1E98 |-> <<"W", "U030A">>, U1E99 |-> <<"Y", "U030A">>,
     U1E9A |-> <<"A", "U02BE">>, U1E9B |-> <<"U1E60">>, U1EA1 |-> <<"U1EA0">>,
     U1EA3 |-> <<"U1EA2">>, U1EA5 |-> <<"U1EA4">>, U1EA7 |-> <<"U1EA6">>,
     U1EA9 |-> <<"U1EA8">>, U1EAB |-> <<"U1EAA">>, U1EAD |-> <<"U1EAC">>,
     U1EAF |-> <<"U1EAE">>, U1EB1 |-> <<"U1EB0">>, U1EB3 |-> <<"U1EB2">>,
     U1EB5 |-> <<"U1EB4">>, U1EB7 |-> <<"U1EB6">>, U1EB9 |-> <<"U1EB8">>,
     U1EBB |-> <<"U1EBA">>, U1EBD |-> <<"U1EBC">>, U1EBF |-> <<"U1EBE">>,
     U1EC1 |-> <<"U1EC0">>, U1EC3 |-> <<"U1EC2">>, U1EC5 |-> <<"U1EC4">>,
     U1EC7 |-> <<"U1EC6">>, U1EC9 |-> <<"U1EC8">>, U1ECB |-> <<"U1ECA">>,
     U1ECD |-> <<"U1ECC">>, U1ECF |-> <<"U1ECE">>, U1ED1 |-> <<"U1ED0">>,
     U1ED3 |-> <<"U1ED2">>, U1ED5 |-> <<"U1ED4">>, U1ED7 |-> <<"U1ED6">>,
     U1ED9 |-> <<"U1ED8">>, U1EDB |-> <<"U1EDA">>, U1EDD |-> <<"U1EDC">>,
     U1EDF |-> <<"U1EDE">>, U1EE1 |-> <<"U1EE0">>, U1EE3 |-> <<"U1EE2">>,
     U1EE5 |-> <<"U1EE4">>, U1EE7 |-> <<"U1EE6">>, U1EE9 |-> <<"U1EE8">>,
     U1EEB |-> <<"U1EEA">>, U1EED |-> <<"U1EEC">>, U1EEF |-> <<"U1EEE">>,
     U1EF1 |-> <<"U1EF0">>, U1EF3 |-> <<"U1EF2">>, U1EF5 |-> <<"U1EF4">>,
     U1EF7 |-> <<"U1EF6">>, U1EF9 |-> <<"U1EF8">>, U1EFB |-> <<"U1EFA">>,
     U1EFD |-> <<"U1EFC">>, U1EFF |-> <<"U1EFE">>, U1F00 |-> <<"U1F08">>,
     U1F01 |-> <<"U1F09">>, U1F02 |-> <<"U1F0A">>, U1F03 |-> <<"U1F0B">>,
     U1F04 |-> <<"U1F0C">>, U1F05 |-> <<"U1F0D">>, U1F06 |-> <<"U1F0E">>,
     U1F07 |-> <<"U1F0F">>, U1F10 |-> <<"U1F18">>, U1F11 |-> <<"U1F19">>,
     U1F12 |-> <<"U1F1A">>, U1F13 |-> <<"U1F1B">>, U1F14 |-> <<"U1F1C">>,
     U1F15 |-> <<"U1F1D">>, U1F20 |-> <<"U1F28">>, U1F21 |-> <<"U1F29">>,
     U1F22 |-> <<"U1F2A">>, U1F23 |-> <<"U1F2B">>, U1F24 |-> <<"U1F2C">>,
     U1F25 |-> <<"U1F2D">>, U1F26 |-> <<"U1F2E">>, U1F27 |-> <<"U1F2F">>,
     U1F30 |-> <<"U1F38">>, U1F31 |-> <<"U1F39">>, U1F32 |-> <<"U1F3A">>,
     U1F33 |-> <<"U1F3B">>, U1F34 |-> <<"U1F3C">>, U1F35 |-> <<"U1F3D">>,
     U1F36 |-> <<"U1F3E">>, U1F37 |-> <<"U1F3F">>, U1F40 |-> <<"U1F48">>,
     U1F41 |-> <<"U1F49">>, U1F42 |-> <<"U1F4A">>, U1F43 |-> <<"U1F4B">>,
     U1F44 |-> <<"U1F4C">>, U1F45 |-> <<"U1F4D">>,
     U1F50 |-> <<"U03A5", "U0313">>, U1F51 |-> <<"U1F59">>,
     U1F52 |-> <<"U03A5", "U0313", "U0300">>, U1F53 |-> <<"U1F5B">>,
     U1F54 |-> <<"U03A5", "U0313", "U0301">>, U1F55 |-> <<"U1F5D">>,
     U1F56 |-> <<"U03A5", "U0313", "U0342">>, U1F57 |-> <<"U1F5F">>,
     U1F60 |-> <<"U1F68">>, U1F61 |-> <<"U1F69">>, U1F62 |-> <<"U1F6A">>,
     U1F63 |-> <<"U1F6B">>, U1F64 |-> <<"U1F6C">>, U1F65 |-> <<"U1F6D">>,
     U1F66 |-> <<"U1F6E">>, U1F67 |-> <<"U1F6F">>, U1F70 |-> <<"U1FBA">>,
     U1F71 |-> <<"U1FBB">>, U1F72 |-> <<"U1FC8">>, U1F73 |-> <<"U1FC9">>,
     U1F74 |-> <<"U1FCA">>, U1F75 |-> <<"U1FCB">>, U1F76 |-> <<"U1FDA">>,
     U1F77 |-> <<"U1FDB">>, U1F78 |-> <<"U1FF8">>, U1F79 |-> <<"U1FF9">>,
     U1F7A |-> <<"U1FEA">>, U1F7B |-> <<"U1FEB">>, U1F7C |-> <<"U1FFA">>,
     U1F7D |-> <<"U1FFB">>, U1F80 |-> <<"U1F08", "U0399">>,
     U1F81 |-> <<"U1F09", "U0399">>, U1F82 |-> <<"U1F0A", "U0399">>,
     U1F83 |-> <<"U1F0B", "U0399">>, U1F84 |-> <<"U1F0C", "U0399">>,
     U1F85 |-> <<"U1F0D", "U0399">>, U1F86 |-> <<"U1F0E", "U0399">>,
     U1F87 |-> <<"U1F0F", "U0399">>, U1F88 |-> <<"U1F08", "U0399">>,
     U1F89 |-> <<"U1F09", "U0399">>, U1F8A |-> <<"U1F0A", "U0399">>,
     U1F8B |-> <<"U1F0B", "U0399">>, U1F8C |-> <<"U1F0C", "U0399">>,
     U1F8D |-> <<"U1F0D", "U0399">>, U1F8E |-> <<"U1F0E", "U0399">>,
     U1F8F |-> <<"U1F0F", "U0399">>, U1F90 |-> <<"U1F28", "U0399">>,
     U1F91 |-> <<"U1F29", "U0399">>, U1F92 |-> <<"U1F2A", "U0399">>,
     U1F93 |-> <<"U1F2B", "U0399">>, U1F94 |-> <<"U1F2C", "U0399">>,
     U1F95 |-> <<"U1F2D", "U0399">>, U1F96 |-> <<"U1F2E", "U0399">>,
     U1F97 |-> <<"U1F2F", "U0399">>, U1F98 |-> <<"U1F28", "U0399">>,
     U1F99 |-> <<"U1F29", "U0399">>, U1F9A |-> <<"U1F2A", "U0399">>,
     U1F9B |-> <<"U1F2B", "U0399">>, U1F9C |-> <<"U1F2C", "U0399">>,
     U1F9D |-> <<"U1F2D", "U0399">>, U1F9E |-> <<"U1F2E", "U0399">>,
     U1F9F |-> <<"U1F2F", "U0399">>, U1FA0 |-> <<"U1F68", "U0399">>,
     U1FA1 |-> <<"U1F69", "U0399">>, U1FA2 |-> <<"U1F6A", "U0399">>,
     U1FA3 |-> <<"U1F6B", "U0399">>, U1FA4 |-> <<"U1F6C", "U0399">>,
     U1FA5 |-> <<"U1F6D", "U0399">>, U1FA6 |-> <<"U1F6E", "U0399">>,
     U1FA7 |-> <<"U1F6F", "U0399">>, U1FA8 |-> <<"U1F68", "U0399">>,
     U1FA9 |-> <<"U1F69", "U0399">>, U1FAA |-> <<"U1F6A", "U0399">>,
     U1FAB |-> <<"U1F6B", "U0399">>, U1FAC |-> <<"U1F6C", "U0399">>,
     U1FAD |-> <<"U1F6D", "U0399">>, U1FAE |-> <<"U1F6E", "U0399">>,
     U1FAF |-> <<"U1F6F", "U0399">>, U1FB0 |-> <<"U1FB8">>,
     U1FB1 |-> <<"U1FB9">>, U1FB2 |-> <<"U1FBA", "U0399">>,
     U1FB3 |-> <<"U0391", "U0399">>, U1FB4 |-> <<"U0386", "U0399">>,
     U1FB6 |-> <<"U0391", "U0342">>, U1FB7 |-> <<"U0391", "U0342", "U0399">>,
     U1FBC |-> <<"U0391", "U0399">>, U1FBE |-> <<"U0399">>,
     U1FC2 |-> <<"U1FCA", "U0399">>, U1FC3 |-> <<"U0397", "U0399">>,
     U1FC4 |-> <<"U0389", "U0399">>, U1FC6 |-> <<"U0397", "U0342">>,
     U1FC7 |-> <<"U0397", "U0342", "U0399">>, U1FCC |-> <<"U0397", "U0399">>,
     U1FD0 |-> <<"U1FD8">>, U1FD1 |-> <<"U1FD9">>,
     U1FD2 |-> <<"U0399", "U0308", "U0300">>,
     U1FD3 |-> <<"U0399", "U0308", "U0301">>, U1FD6 |-> <<"U0399", "U0342">>,
     U1FD7 |-> <<"U0399", "U0308", "U0342">>, U1FE0 |-> <<"U1FE8">>,
     U1FE1 |-> <<"U1FE9">>, U1FE2 |-> <<"U03A5", "U0308", "U0300">>,
     U1FE3 |-> <<"U03A5", "U0308", "U0301">>, U1FE4 |-> <<"U03A1", "U0313">>,
     U1FE5 |-> <<"U1FEC">>, U1FE6 |-> <<"U03A5", "U0342">>,
     U1FE7 |-> <<"U03A5", "U0308", "U0342">>, U1FF2 |-> <<"U1FFA", "U0399">>,
     U1FF3 |-> <<"U03A9", "U0399">>, U1FF4 |-> <<"U038F", "U0399">>,
     U1FF6 |-> <<"U03A9", "U0342">>, U1FF7 |-> <<"U03A9", "U0342", "U0399">>,
     U1FFC |-> <<"U03A9", "U0399">>, U214E |-> <<"U2132">>,
     U2170 |-> <<"U2160">>, U2171 |-> <<"U2161">>, U2172 |-> <<"U2162">>,
     U2173 |-> <<"U2163">>, U2174 |-> <<"U2164">>, U2175 |-> <<"U2165">>,
     U2176 |-> <<"U2166">>, U2177 |-> <<"U2167">>, U2178 |-> <<"U2168">>,
     U2179 |-> <<"U2169">>, U217A |-> <<"U216A">>, U217B |-> <<"U216B">>,
     U217C |-> <<"U216C">>, U217D |-> <<"U216D">>, U217E |-> <<"U216E">>,
     U217F |-> <<"U216F">>, U2184 |-> <<"U2183">>, U24D0 |-> <<"U24B6">>,
     U24D1 |-> <<"U24B7">>, U24D2 |-> <<"U24B8">>, U24D3 |-> <<"U24B9">>,
     U24D4 |-> <<"U24BA">>, U24D5 |-> <<"U24BB">>, U24D6 |-> <<"U24BC">>,
     U24D7 |-> <<"U24BD">>, U24D8 |-> <<"U24BE">>, U24D9 |-> <<"U24BF">>,
     U24DA |-> <<"U24C0">>, U24DB |-> <<"U24C1">>, U24DC |-> <<"U24C2">>,
     U24DD |-> <<"U24C3">>, U24DE |-> <<"U24C4">>, U24DF |-> <<"U24C5">>,
     U24E0 |-> <<"U24C6">>, U24E1 |-> <<"U24C7">>, U24E2 |-> <<"U24C8">>,
     U24E3 |-> <<"U24C9">>, U24E4 |-> <<"U24CA">>, U24E5 |-> <<"U24CB">>,
     U24E6 |-> <<"U24CC">>, U24E7 |-> <<"U24CD">>, U24E8 |-> <<"U24CE">>,
     U24E9 |-> <<"U24CF">>, U2C30 |-> <<"U2C00">>, U2C31 |-> <<"U2C01">>,
     U2C32 |-> <<"U2C02">>, U2C33 |-> <<"U2C03">>, U2C34 |-> <<"U2C04">>,
     U2C35 |-> <<"U2C05">>, U2C36 |-> <<"U2C06">>, U2C37 |-> <<"U2C07">>,
     U2C38 |-> <<"U2C08">>, U2C39 |-> <<"U2C09">>, U2C3A |-> <<"U2C0A">>,
     U2C3B |-> <<"U2C0B">>, U2C3C |-> <<"U2C0C">>, U2C3D |-> <<"U2C0D">>,
     U2C3E |-> <<"U2C0E">>, U2C3F |-> <<"U2C0F">>, U2C40 |-> <<"U2C10">>,
     U2C41 |-> <<"U2C11">>, U2C42 |-> <<"U2C12">>, U2C43 |-> <<"U2C13">>,
     U2C44 |-> <<"U2C14">>, U2C45 |-> <<"U2C15">>, U2C46 |-> <<"U2C16">>,
     U2C47 |-> <<"U2C17">>, U2C48 |-> <<"U2C18">>, U2C49 |-> <<"U2C19">>,
     U2C4A |-> <<"U2C1A">>, U2C4B |-> <<"U2C1B">>, U2C4C |-> <<"U2C1C">>,
     U2C4D |-> <<"U2C1D">>, U2C4E |-> <<"U2C1E">>, U2C4F |-> <<"U2C1F">>,
     U2C50 |-> <<"U2C20">>, U2C51 |-> <<"U2C21">>, U2C52 |-> <<"U2C22">>,
     U2C53 |-> <<"U2C23">>, U2C54 |-> <<"U2C24">>, U2C55 |-> <<"U2C25">>,
     U2C56 |-> <<"U2C26">>, U2C57 |-> <<"U2C27">>, U2C58 |-> <<"U2C28">>,
     U2C59 |-> <<"U2C29">>, U2C5A |-> <<"U2C2A">>, U2C5B |-> <<"U2C2B">>,
     U2C5C |-> <<"U2C2C">>, U2C5D |-> <<"U2C2D">>, U2C5E |-> <<"U2C2E">>,
     U2C5F |-> <<"U2C2F">>, U2C61 |-> <<"U2C60">>, U2C65 |-> <<"U023A">>,
     U2C66 |-> <<"U023E">>, U2C68 |-> <<"U2C67">>, U2C6A |-> <<"U2C69">>,
     U2C6C |-> <<"U2C6B">>, U2C73 |-> <<"U2C72">>, U2C76 |-> <<"U2C75">>,
     U2C81 |-> <<"U2C80">>, U2C83 |-> <<"U2C82">>, U2C85 |-> <<"U2C84">>,
     U2C87 |-> <<"U2C86">>, U2C89 |-> <<"U2C88">>, U2C8B |-> <<"U2C8A">>,
     U2C8D |-> <<"U2C8C">>, U2C8F |-> <<"U2C8E">>, U2C91 |-> <<"U2C90">>,
     U2C93 |-> <<"U2C92">>, U2C95 |-> <<"U2C94">>, U2C97 |-> <<"U2C96">>,
     U2C99 |-> <<"U2C98">>, U2C9B |-> <<"U2C9A">>, U2C9D |-> <<"U2C9C">>,
     U2C9F |-> <<"U2C9E">>, U2CA1 |-> <<"U2CA0">>, U2CA3 |-> <<"U2CA2">>,
     U2CA5 |-> <<"U2CA4">>, U2CA7 |-> <<"U2CA6">>, U2CA9 |-> <<"U2CA8">>,
     U2CAB |-> <<"U2CAA">>, U2CAD |-> <<"U2CAC">>, U2CAF |-> <<"U2CAE">>,
     U2CB1 |-> <<"U2CB0">>, U2CB3 |-> <<"U2CB2">>, U2CB5 |-> <<"U2CB4">>,
     U2CB7 |-> <<"U2CB6">>, U2CB9 |-> <<"U2CB8">>, U2CBB |-> <<"U2CBA">>,
     U2CBD |-> <<"U2CBC">>, U2CBF |-> <<"U2CBE">>, U2CC1 |-> <<"U2CC0">>,
     U2CC3 |-> <<"U2CC2">>, U2CC5 |-> <<"U2CC4">>, U2CC7 |-> <<"U2CC6">>,
     U2CC9 |-> <<"U2CC8">>, U2CCB |-> <<"U2CCA">>, U2CCD |-> <<"U2CCC">>,
     U2CCF |-> <<"U2CCE">>, U2CD1 |-> <<"U2CD0">>, U2CD3 |-> <<"U2CD2">>,
     U2CD5 |-> <<"U2CD4">>, U2CD7 |-> <<"U2CD6">>, U2CD9 |-> <<"U2CD8">>,
     U2CDB |-> <<"U2CDA">>, U2CDD |-> <<"U2CDC">>, U2CDF |-> <<"U2CDE">>,
     U2CE1 |-> <<"U2CE0">>, U2CE3 |-> <<"U2CE2">>, U2CEC |-> <<"U2CEB">>,
     U2CEE |-> <<"U2CED">>, U2CF3 |-> <<"U2CF2">>, U2D00 |-> <<"U10A0">>,
     U2D01 |-> <<"U10A1">>, U2D02 |-> <<"U10A2">>, U2D03 |-> <<"U10A3">>,
     U2D04 |-> <<"U10A4">>, U2D05 |-> <<"U10A5">>, U2D06 |-> <<"U10A6">>,
     U2D07 |-> <<"U10A7">>, U2D08 |-> <<"U10A8">>, U2D09 |-> <<"U10A9">>,
     U2D0A |-> <<"U10AA">>, U2D0B |-> <<"U10AB">>, U2D0C |-> <<"U10AC">>,
     U2D0D |-> <<"U10AD">>, U2D0E |-> <<"U10AE">>, U2D0F |-> <<"U10AF">>,
     U2D10 |-> <<"U10B0">>, U2D11 |-> <<"U10B1">>, U2D12 |-> <<"U10B2">>,
     U2D13 |-> <<"U10B3">>, U2D14 |-> <<"U10B4">>, U2D15 |-> <<"U10B5">>,
     U2D16 |-> <<"U10B6">>, U2D17 |-> <<"U10B7">>, U2D18 |-> <<"U10B8">>,
     U2D19 |-> <<"U10B9">>, U2D1A |-> <<"U10BA">>, U2D1B |-> <<"U10BB">>,
     U2D1C |-> <<"U10BC">>, U2D1D |-> <<"U10BD">>, U2D1E |-> <<"U10BE">>,
     U2D1F |-> <<"U10BF">>, U2D20 |-> <<"U10C0">>, U2D21 |-> <<"U10C1">>,
     U2D22 |-> <<"U10C2">>, U2D23 |-> <<"U10C3">>, U2D24 |-> <<"U10C4">>,
     U2D25 |-> <<"U10C5">>, U2D27 |-> <<"U10C7">>, U2D2D |-> <<"U10CD">>,
     UA641 |-> <<"UA640">>, UA643 |-> <<"UA642">>, UA645 |-> <<"UA644">>,
     UA647 |-> <<"UA646">>, UA649 |-> <<"UA648">>, UA64B |-> <<"UA64A">>,
     UA64D |-> <<"UA64C">>, UA64F |-> <<"UA64E">>, UA651 |-> <<"UA650">>,
     UA653 |-> <<"UA652">>, UA655 |-> <<"UA654">>, UA657 |-> <<"UA656">>,
     UA659 |-> <<"UA658">>, UA65B |-> <<"UA65A">>, UA65D |-> <<"UA65C">>,
     UA65F |-> <<"UA65E">>, UA661 |-> <<"UA660">>, UA663 |-> <<"UA662">>,
     UA665 |-> <<"UA664">>, UA667 |-> <<"UA666">>, UA669 |-> <<"UA668">>,
     UA66B |-> <<"UA66A">>, UA66D |-> <<"UA66C">>, UA681 |-> <<"UA680">>,
     UA683 |-> <<"UA682">>, UA685 |-> <<"UA684">>, UA687 |-> <<"UA686">>,
     UA689 |-> <<"UA688">>, UA68B |-> <<"UA68A">>, UA68D |-> <<"UA68C">>,
     UA68F |-> <<"UA68E">>, UA691 |-> <<"UA690">>, UA693 |-> <<"UA692">>,
     UA695 |-> <<"UA694">>, UA697 |-> <<"UA696">>, UA699 |-> <<"UA698">>,
     UA69B |-> <<"UA69A">>, UA723 |-> <<"UA722">>, UA725 |-> <<"UA724">>,
     UA727 |-> <<"UA726">>, UA729 |-> <<"UA728">>, UA72B |-> <<"UA72A">>,
     UA72D |-> <<"UA72C">>, UA72F |-> <<"UA72E">>, UA733 |-> <<"UA732">>,
     UA735 |-> <<"UA734">>, UA737 |-> <<"UA736">>, UA739 |-> <<"UA738">>,
     UA73B |-> <<"UA73A">>, UA73D |-> <<"UA73C">>, UA73F |-> <<"UA73E">>,
     UA741 |-> <<"UA740">>, UA743 |-> <<"UA742">>, UA745 |-> <<"UA744">>,
     UA747 |-> <<"UA746">>, UA749 |-> <<"UA748">>, UA74B |-> <<"UA74A">>,
     UA74D |-> <<"UA74C">>, UA74F |-> <<"UA74E">>, UA751 |-> <<"UA750">>,
     UA753 |-> <<"UA752">>, UA755 |-> <<"UA754">>, UA757 |-> <<"UA756">>,
     UA759 |-> <<"UA758">>, UA75B |-> <<"UA75A">>, UA75D |-> <<"UA75C">>,
     UA75F |-> <<"UA75E">>, UA761 |-> <<"UA760">>, UA763 |-> <<"UA762">>,
     UA765 |-> <<"UA764">>, UA767 |-> <<"UA766">>, UA769 |-> <<"UA768">>,
     UA76B |-> <<"UA76A">>, UA76D |-> <<"UA76C">>, UA76F |-> <<"UA76E">>,
     UA77A |-> <<"UA779">>, UA77C |-> <<"UA77B">>, UA77F |-> <<"UA77E">>,
     UA781 |-> <<"UA780">>, UA783 |-> <<"UA782">>, UA785 |-> <<"UA784">>,
     UA787 |-> <<"UA786">>, UA78C |-> <<"UA78B">>, UA791 |-> <<"UA790">>,
     UA793 |-> <<"UA792">>, UA794 |-> <<"UA7C4">>, UA797 |-> <<"UA796">>,
     UA799 |-> <<"UA798">>, UA79B |-> <<"UA79A">>, UA79D |-> <<"UA79C">>,
     UA79F |-> <<"UA79E">>, UA7A1 |-> <<"UA7A0">>, UA7A3 |-> <<"UA7A2">>,
     UA7A5 |-> <<"UA7A4">>, UA7A7 |-> <<"UA7A6">>, UA7A9 |-> <<"UA7A8">>,
     UA7B5 |-> <<"UA7B4">>, UA7B7 |-> <<"UA7B6">>, UA7B9 |-> <<"UA7B8">>,
     UA7BB |-> <<"UA7BA">>, UA7BD |-> <<"UA7BC">>, UA7BF |-> <<"UA7BE">>,
     UA7C1 |-> <<"UA7C0">>, UA7C3 |-> <<"UA7C2">>, UA7C8 |-> <<"UA7C7">>,
     UA7CA |-> <<"UA7C9">>, UA7D1 |-> <<"UA7D0">>, UA7D7 |-> <<"UA7D6">>,
     UA7D9 |-> <<"UA7D8">>, UA7F6 |-> <<"UA7F5">>, UAB53 |-> <<"UA7B3">>,
     UAB70 |-> <<"U13A0">>, UAB71 |-> <<"U13A1">>, UAB72 |-> <<"U13A2">>,
     UAB73 |-> <<"U13A3">>, UAB74 |-> <<"U13A4">>, UAB75 |-> <<"U13A5">>,
     UAB76 |-> <<"U13A6">>, UAB77 |-> <<"U13A7">>, UAB78 |-> <<"U13A8">>,
     UAB79 |-> <<"U13A9">>, UAB7A |-> <<"U13AA">>, UAB7B |-> <<"U13AB">>,
     UAB7C |-> <<"U13AC">>, UAB7D |-> <<"U13AD">>, UAB7E |-> <<"U13AE">>,
     UAB7F |-> <<"U13AF">>, UAB80 |-> <<"U13B0">>, UAB81 |-> <<"U13B1">>,
     UAB82 |-> <<"U13B2">>, UAB83 |-> <<"U13B3">>, UAB84 |-> <<"U13B4">>,
     UAB85 |-> <<"U13B5">>, UAB86 |-> <<"U13B6">>, UAB87 |-> <<"U13B7">>,
     UAB88 |-> <<"U13B8">>, UAB89 |-> <<"U13B9">>, UAB8A |-> <<"U13BA">>,
     UAB8B |-> <<"U13BB">>, UAB8C |-> <<"U13BC">>, UAB8D |-> <<"U13BD">>,
     UAB8E |-> <<"U13BE">>, UAB8F |-> <<"U13BF">>, UAB90 |-> <<"U13C0">>,
     UAB91 |-> <<"U13C1">>, UAB92 |-> <<"U13C2">>, UAB93 |-> <<"U13C3">>,
     UAB94 |-> <<"U13C4">>, UAB95 |-> <<"U13C5">>, UAB96 |-> <<"U13C6">>,
     UAB97 |-> <<"U13C7">>, UAB98 |-> <<"U13C8">>, UAB99 |-> <<"U13C9">>,
     UAB9A |-> <<"U13CA">>, UAB9B |-> <<"U13CB">>, UAB9C |-> <<"U13CC">>,
     UAB9D |-> <<"U13CD">>, UAB9E |-> <<"U13CE">>, UAB9F |-> <<"U13CF">>,
     UABA0 |-> <<"U13D0">>, UABA1 |-> <<"U13D1">>, UABA2 |-> <<"U13D2">>,
     UABA3 |-> <<"U13D3">>, UABA4 |-> <<"U13D4">>, UABA5 |-> <<"U13D5">>,
     UABA6 |-> <<"U13D6">>, UABA7 |-> <<"U13D7">>, UABA8 |-> <<"U13D8">>,
     UABA9 |-> <<"U13D9">>, UABAA |-> <<"U13DA">>, UABAB |-> <<"U13DB">>,
     UABAC |-> <<"U13DC">>, UABAD |-> <<"U13DD">>, UABAE |-> <<"U13DE">>,
     UABAF |-> <<"U13DF">>, UABB0 |-> <<"U13E0">>, UABB1 |-> <<"U13E1">>,
     UABB2 |-> <<"U13E2">>, UABB3 |-> <<"U13E3">>, UABB4 |-> <<"U13E4">>,
     UABB5 |-> <<"U13E5">>, UABB6 |-> <<"U13E6">>, UABB7 |-> <<"U13E7">>,
     UABB8 |-> <<"U13E8">>, UABB9 |-> <<"U13E9">>, UABBA |-> <<"U13EA">>,
     UABBB |-> <<"U13EB">>, UABBC |-> <<"U13EC">>, UABBD |-> <<"U13ED">>,
     UABBE |-> <<"U13EE">>, UABBF |-> <<"U13EF">>, UFB00 |-> <<"F", "F">>,
     UFB01 |-> <<"F", "I">>, UFB02 |-> <<"F", "L">>,
     UFB03 |-> <<"F", "F", "I">>, UFB04 |-> <<"F", "F", "L">>,
     UFB05 |-> <<"S", "T">>, UFB06 |-> <<"S", "T">>,
     UFB13 |-> <<"U0544", "U0546">>, UFB14 |-> <<"U0544", "U0535">>,
     UFB15 |-> <<"U0544", "U053B">>, UFB16 |-> <<"U054E", "U0546">>,
     UFB17 |-> <<"U0544", "U053D">>, UFF41 |-> <<"UFF21">>,
     UFF42 |-> <<"UFF22">>, UFF43 |-> <<"UFF23">>, UFF44 |-> <<"UFF24">>,
     UFF45 |-> <<"UFF25">>, UFF46 |-> <<"UFF26">>, UFF47 |-> <<"UFF27">>,
     UFF48 |-> <<"UFF28">>, UFF49 |-> <<"UFF29">>, UFF4A |-> <<"UFF2A">>,
     UFF4B |-> <<"UFF2B">>, UFF4C |-> <<"UFF2C">>, UFF4D |-> <<"UFF2D">>,
     UFF4E |-> <<"UFF2E">>, UFF4F |-> <<"UFF2F">>, UFF50 |-> <<"UFF30">>,
     UFF51 |-> <<"UFF31">>, UFF52 |-> <<"UFF32">>, UFF53 |-> <<"UFF33">>,
     UFF54 |-> <<"UFF34">>, UFF55 |-> <<"UFF35">>, UFF56 |-> <<"UFF36">>,
     UFF57 |-> <<"UFF37">>, UFF58 |-> <<"UFF38">>, UFF59 |-> <<"UFF39">>,
     UFF5A |-> <<"UFF3A">>, U10428 |-> <<"U10400">>, U10429 |-> <<"U10401">>,
     U1042A |-> <<"U10402">>, U1042B |-> <<"U10403">>,
     U1042C |-> <<"U10404">>, U1042D |-> <<"U10405">>,
     U1042E |-> <<"U10406">>, U1042F |-> <<"U10407">>,
     U10430 |-> <<"U10408">>, U10431 |-> <<"U10409">>,
     U10432 |-> <<"U1040A">>, U10433 |-> <<"U1040B">>,
     U10434 |-> <<"U1040C">>, U10435 |-> <<"U1040D">>,
     U10436 |-> <<"U1040E">>, U10437 |-> <<"U1040F">>,
     U10438 |-> <<"U10410">>, U10439 |-> <<"U10411">>,
     U1043A |-> <<"U10412">>, U1043B |-> <<"U10413">>,
     U1043C |-> <<"U10414">>, U1043D |-> <<"U10415">>,
     U1043E |-> <<"U10416">>, U1043F |-> <<"U10417">>,
     U10440 |-> <<"U10418">>, U10441 |-> <<"U10419">>,
     U10442 |-> <<"U1041A">>, U10443 |-> <<"U1041B">>,
     U10444 |-> <<"U1041C">>, U10445 |-> <<"U1041D">>,
     U10446 |-> <<"U1041E">>, U10447 |-> <<"U1041F">>,
     U10448 |-> <<"U10420">>, U10449 |-> <<"U10421">>,
     U1044A |-> <<"U10422">>, U1044B |-> <<"U10423">>,
     U1044C |-> <<"U10424">>, U1044D |-> <<"U10425">>,
     U1044E |-> <<"U10426">>, U1044F |-> <<"U10427">>,
     U104D8 |-> <<"U104B0">>, U104D9 |-> <<"U104B1">>,
     U104DA |-> <<"U104B2">>, U104DB |-> <<"U104B3">>,
     U104DC |-> <<"U104B4">>, U104DD |-> <<"U104B5">>,
     U104DE |-> <<"U104B6">>, U104DF |-> <<"U104B7">>,
     U104E0 |-> <<"U104B8">>, U104E1 |-> <<"U104B9">>,
     U104E2 |-> <<"U104BA">>, U104E3 |-> <<"U104BB">>,
     U104E4 |-> <<"U104BC">>, U104E5 |-> <<"U104BD">>,
     U104E6 |-> <<"U104BE">>, U104E7 |-> <<"U104BF">>,
     U104E8 |-> <<"U104C0">>, U104E9 |-> <<"U104C1">>,
     U104EA |-> <<"U104C2">>, U104EB |-> <<"U104C3">>,
     U104EC |-> <<"U104C4">>, U104ED |-> <<"U104C5">>,
     U104EE |-> <<"U104C6">>, U104EF |-> <<"U104C7">>,
     U104F0 |-> <<"U104C8">>, U104F1 |-> <<"U104C9">>,
     U104F2 |-> <<"U104CA">>, U104F3 |-> <<"U104CB">>,
     U104F4 |-> <<"U104CC">>, U104F5 |-> <<"U104CD">>,
     U104F6 |-> <<"U104CE">>, U104F7 |-> <<"U104CF">>,
     U104F8 |-> <<"U104D0">>, U104F9 |-> <<"U104D1">>,
     U104FA |-> <<"U104D2">>, U104FB |-> <<"U104D3">>,
     U10597 |-> <<"U10570">>, U10598 |-> <<"U10571">>,
     U10599 |-> <<"U10572">>, U1059A |-> <<"U10573">>,
     U1059B |-> <<"U10574">>, U1059C |-> <<"U10575">>,
     U1059D |-> <<"U10576">>, U1059E |-> <<"U10577">>,
     U1059F |-> <<"U10578">>, U105A0 |-> <<"U10579">>,
     U105A1 |-> <<"U1057A">>, U105A3 |-> <<"U1057C">>,
     U105A4 |-> <<"U1057D">>, U105A5 |-> <<"U1057E">>,
     U105A6 |-> <<"U1057F">>, U105A7 |-> <<"U10580">>,
     U105A8 |-> <<"U10581">>, U105A9 |-> <<"U10582">>,
     U105AA |-> <<"U10583">>, U105AB |-> <<"U10584">>,
     U105AC |-> <<"U10585">>, U105AD |-> <<"U10586">>,
     U105AE |-> <<"U10587">>, U105AF |-> <<"U10588">>,
     U105B0 |-> <<"U10589">>, U105B1 |-> <<"U1058A">>,
     U105B3 |-> <<"U1058C">>, U105B4 |-> <<"U1058D">>,
     U105B5 |-> <<"U1058E">>, U105B6 |-> <<"U1058F">>,
     U105B7 |-> <<"U10590">>, U105B8 |-> <<"U10591">>,
     U105B9 |-> <<"U10592">>, U105BB |-> <<"U10594">>,
     U105BC |-> <<"U10595">>, U10CC0 |-> <<"U10C80">>,
     U10CC1 |-> <<"U10C81">>, U10CC2 |-> <<"U10C82">>,
     U10CC3 |-> <<"U10C83">>, U10CC4 |-> <<"U10C84">>,
     U10CC5 |-> <<"U10C85">>, U10CC6 |-> <<"U10C86">>,
     U10CC7 |-> <<"U10C87">>, U10CC8 |-> <<"U10C88">>,
     U10CC9 |-> <<"U10C89">>, U10CCA |-> <<"U10C8A">>,
     U10CCB |-> <<"U10C8B">>, U10CCC |-> <<"U10C8C">>,
     U10CCD |-> <<"U10C8D">>, U10CCE |-> <<"U10C8E">>,
     U10CCF |-> <<"U10C8F">>, U10CD0 |-> <<"U10C90">>,
     U10CD1 |-> <<"U10C91">>, U10CD2 |-> <<"U10C92">>,
     U10CD3 |-> <<"U10C93">>, U10CD4 |-> <<"U10C94">>,
     U10CD5 |-> <<"U10C95">>, U10CD6 |-> <<"U10C96">>,
     U10CD7 |-> <<"U10C97">>, U10CD8 |-> <<"U10C98">>,
     U10CD9 |-> <<"U10C99">>, U10CDA |-> <<"U10C9A">>,
     U10CDB |-> <<"U10C9B">>, U10CDC |-> <<"U10C9C">>,
     U10CDD |-> <<"U10C9D">>, U10CDE |-> <<"U10C9E">>,
     U10CDF |-> <<"U10C9F">>, U10CE0 |-> <<"U10CA0">>,
     U10CE1 |-> <<"U10CA1">>, U10CE2 |-> <<"U10CA2">>,
     U10CE3 |-> <<"U10CA3">>, U10CE4 |-> <<"U10CA4">>,
     U10CE5 |-> <<"U10CA5">>, U10CE6 |-> <<"U10CA6">>,
     U10CE7 |-> <<"U10CA7">>, U10CE8 |-> <<"U10CA8">>,
     U10CE9 |-> <<"U10CA9">>, U10CEA |-> <<"U10CAA">>,
     U10CEB |-> <<"U10CAB">>, U10CEC |-> <<"U10CAC">>,
     U10CED |-> <<"U10CAD">>, U10CEE |-> <<"U10CAE">>,
     U10CEF |-> <<"U10CAF">>, U10CF0 |-> <<"U10CB0">>,
     U10CF1 |-> <<"U10CB1">>, U10CF2 |-> <<"U10CB2">>,
     U118C0 |-> <<"U118A0">>, U118C1 |-> <<"U118A1">>,
     U118C2 |-> <<"U118A2">>, U118C3 |-> <<"U118A3">>,
     U118C4 |-> <<"U118A4">>, U118C5 |-> <<"U118A5">>,
     U118C6 |-> <<"U118A6">>, U118C7 |-> <<"U118A7">>,
     U118C8 |-> <<"U118A8">>, U118C9 |-> <<"U118A9">>,
     U118CA |-> <<"U118AA">>, U118CB |-> <<"U118AB">>,
     U118CC |-> <<"U118AC">>, U118CD |-> <<"U118AD">>,
     U118CE |-> <<"U118AE">>, U118CF |-> <<"U118AF">>,
     U118D0 |-> <<"U118B0">>, U118D1 |-> <<"U118B1">>,
     U118D2 |-> <<"U118B2">>, U118D3 |-> <<"U118B3">>,
     U118D4 |-> <<"U118B4">>, U118D5 |-> <<"U118B5">>,
     U118D6 |-> <<"U118B6">>, U118D7 |-> <<"U118B7">>,
     U118D8 |-> <<"U118B8">>, U118D9 |-> <<"U118B9">>,
     U118DA |-> <<"U118BA">>, U118DB |-> <<"U118BB">>,
     U118DC |-> <<"U118BC">>, U118DD |-> <<"U118BD">>,
     U118DE |-> <<"U118BE">>, U118DF |-> <<"U118BF">>,
     U16E60 |-> <<"U16E40">>, U16E61 |-> <<"U16E41">>,
     U16E62 |-> <<"U16E42">>, U16E63 |-> <<"U16E43">>,
     U16E64 |-> <<"U16E44">>, U16E65 |-> <<"U16E45">>,
     U16E66 |-> <<"U16E46">>, U16E67 |-> <<"U16E47">>,
     U16E68 |-> <<"U16E48">>, U16E69 |-> <<"U16E49">>,
     U16E6A |-> <<"U16E4A">>, U16E6B |-> <<"U16E4B">>,
     U16E6C |-> <<"U16E4C">>, U16E6D |-> <<"U16E4D">>,
     U16E6E |-> <<"U16E4E">>, U16E6F |-> <<"U16E4F">>,
     U16E70 |-> <<"U16E50">>, U16E71 |-> <<"U16E51">>,
     U16E72 |-> <<"U16E52">>, U16E73 |-> <<"U16E53">>,
     U16E74 |-> <<"U16E54">>, U16E75 |-> <<"U16E55">>,
     U16E76 |-> <<"U16E56">>, U16E77 |-> <<"U16E57">>,
     U16E78 |-> <<"U16E58">>, U16E79 |-> <<"U16E59">>,
     U16E7A |-> <<"U16E5A">>, U16E7B |-> <<"U16E5B">>,
     U16E7C |-> <<"U16E5C">>, U16E7D |-> <<"U16E5D">>,
     U16E7E |-> <<"U16E5E">>, U16E7F |-> <<"U16E5F">>,
     U1E922 |-> <<"U1E900">>, U1E923 |-> <<"U1E901">>,
     U1E924 |-> <<"U1E902">>, U1E925 |-> <<"U1E903">>,
     U1E926 |-> <<"U1E904">>, U1E927 |-> <<"U1E905">>,
     U1E928 |-> <<"U1E906">>, U1E929 |-> <<"U1E907">>,
     U1E92A |-> <<"U1E908">>, U1E92B |-> <<"U1E909">>,
     U1E92C |-> <<"U1E90A">>, U1E92D |-> <<"U1E90B">>,
     U1E92E |-> <<"U1E90C">>, U1E92F |-> <<"U1E90D">>,
     U1E930 |-> <<"U1E90E">>, U1E931 |-> <<"U1E90F">>,
     U1E932 |-> <<"U1E910">>, U1E933 |-> <<"U1E911">>,
     U1E934 |-> <<"U1E912">>, U1E935 |-> <<"U1E913">>,
     U1E936 |-> <<"U1E914">>, U1E937 |-> <<"U1E915">>,
     U1E938 |-> <<"U1E916">>, U1E939 |-> <<"U1E917">>,
     U1E93A |-> <<"U1E918">>, U1E93B |-> <<"U1E919">>,
     U1E93C |-> <<"U1E91A">>, U1E93D |-> <<"U1E91B">>,
     U1E93E |-> <<"U1E91C">>, U1E93F |-> <<"U1E91D">>,
     U1E940 |-> <<"U1E91E">>, U1E941 |-> <<"U1E91F">>,
     U1E942 |-> <<"U1E920">>, U1E943 |-> <<"U1E921">>,
     U019B |-> <<"UA7DC">>, U0264 |-> <<"UA7CB">>,
     U1C8A |-> <<"U1C89">>, UA7CD |-> <<"UA7CC">>,
     UA7CF |-> <<"UA7CE">>, UA7D3 |-> <<"UA7D2">>,
     UA7D5 |-> <<"UA7D4">>, UA7DB |-> <<"UA7DA">>,
     U10D70 |-> <<"U10D50">>, U10D71 |-> <<"U10D51">>,
     U10D72 |-> <<"U10D52">>, U10D73 |-> <<"U10D53">>,
     U10D74 |-> <<"U10D54">>, U10D75 |-> <<"U10D55">>,
     U10D76 |-> <<"U10D56">>, U10D77 |-> <<"U10D57">>,
     U10D78 |-> <<"U10D58">>, U10D79 |-> <<"U10D59">>,
     U10D7A |-> <<"U10D5A">>, U10D7B |-> <<"U10D5B">>,
     U10D7C |-> <<"U10D5C">>, U10D7D |-> <<"U10D5D">>,
     U10D7E |-> <<"U10D5E">>, U10D7F |-> <<"U10D5F">>,
     U10D80 |-> <<"U10D60">>, U10D81 |-> <<"U10D61">>,
     U10D82 |-> <<"U10D62">>, U10D83 |-> <<"U10D63">>,
     U10D84 |-> <<"U10D64">>, U10D85 |-> <<"U10D65">>,
     U16EBB |-> <<"U16EA0">>, U16EBC |-> <<"U16EA1">>,
     U16EBD |-> <<"U16EA2">>, U16EBE |-> <<"U16EA3">>,
     U16EBF |-> <<"U16EA4">>, U16EC0 |-> <<"U16EA5">>,
     U16EC1 |-> <<"U16EA6">>, U16EC2 |-> <<"U16EA7">>,
     U16EC3 |-> <<"U16EA8">>, U16EC4 |-> <<"U16EA9">>,
     U16EC5 |-> <<"U16EAA">>, U16EC6 |-> <<"U16EAB">>,
     U16EC7 |-> <<"U16EAC">>, U16EC8 |-> <<"U16EAD">>,
     U16EC9 |-> <<"U16EAE">>, U16ECA |-> <<"U16EAF">>,
     U16ECB |-> <<"U16EB0">>, U16ECC |-> <<"U16EB1">>,
     U16ECD |-> <<"U16EB2">>, U16ECE |-> <<"U16EB3">>,
     U16ECF |-> <<"U16EB4">>, U16ED0 |-> <<"U16EB5">>,
     U16ED1 |-> <<"U16EB6">>, U16ED2 |-> <<"U16EB7">>,
     U16ED3 |-> <<"U16EB8">>]

IsASCII(c) == Len(c) = 1

\* the number a code point's name writes in hexadecimal, and the name of a number
HexDigits == <<"0", "1", "2", "3", "4", "5", "6", "7", "8", "9", "A", "B", "C", "D", "E", "F">>
HexValue(d) == (CHOOSE i \in 1..16 : HexDigits[i] = d) - 1
RECURSIVE HexNumber(_)
HexNumber(h) ==
    IF Len(h) = 0 THEN 0
    ELSE 16 * HexNumber(SubSeq(h, 1, Len(h) - 1)) + HexValue(SubSeq(h, Len(h), Len(h)))
RECURSIVE HexName(_)
HexName(n) == IF n = 0 THEN "" ELSE HexName(n \div 16) \o HexDigits[(n % 16) + 1]
CodePoint(c) == HexNumber(SubSeq(c, 2, Len(c)))

\* a string holds UTF-16 code units: a character of the basic plane is one
\* unit, a character beyond it the pair of a high and a low surrogate; a
\* surrogate without its partner is a character of its own
IsHighSurrogate(c) == Len(c) = 5 /\ SubSeq(c, 2, 3) \in {"D8", "D9", "DA", "DB"}
IsLowSurrogate(c) == Len(c) = 5 /\ SubSeq(c, 2, 3) \in {"DC", "DD", "DE", "DF"}
CodeUnitsOf(c) ==
    IF Len(c) <= 5 THEN <<c>>
    ELSE LET v == CodePoint(c) - 65536
         IN  <<"U" \o HexName(55296 + (v \div 1024)), "U" \o HexName(56320 + (v % 1024))>>
RECURSIVE CodeUnitsFrom(_, _)
CodeUnitsFrom(s, i) ==
    IF i > Len(s) THEN <<>> ELSE CodeUnitsOf(s[i]) \o CodeUnitsFrom(s, i + 1)
CodeUnits(s) == IF \A i \in 1..Len(s) : Len(s[i]) <= 5 THEN s ELSE CodeUnitsFrom(s, 1)
\* the character a high and a low surrogate make together
Paired(hi, lo) ==
    "U" \o HexName(65536 + (CodePoint(hi) - 55296) * 1024 + (CodePoint(lo) - 56320))
IsPairAt(s, i) == i < Len(s) /\ IsHighSurrogate(s[i]) /\ IsLowSurrogate(s[i + 1])

\* String.prototype.toUpperCase on one character: the characters it becomes
UpperCaseOf(c) ==
    IF IsASCII(c) THEN IF c \in DOMAIN UpperOf THEN <<UpperOf[c]>> ELSE <<c>>
    ELSE IF c \in DOMAIN UnicodeUpper THEN UnicodeUpper[c]
    ELSE <<c>>

\* String.prototype.toUpperCase
RECURSIVE UpperFrom(_, _)
UpperFrom(s, i) ==
    IF i > Len(s) THEN <<>>
    ELSE IF IsPairAt(s, i) THEN UpperCaseOf(Paired(s[i], s[i + 1])) \o UpperFrom(s, i + 2)
    ELSE UpperCaseOf(s[i]) \o UpperFrom(s, i + 1)
toUpperCase(s) == UpperFrom(s, 1)

\* the character a pattern with the i flag (and no u flag) compares: the
\* upper-case form when it is one character, except that a character outside
\* ASCII never becomes an ASCII one
Canonicalize(c) ==
    LET u == UpperCaseOf(c) IN
    IF Len(u) # 1 THEN c
    ELSE IF ~IsASCII(c) /\ IsASCII(u[1]) THEN c
    ELSE u[1]

\* the characters \s matches and trim() strips: tab, line feed, vertical tab,
\* form feed, carriage return, space, no-break space, the Ogham space mark, the
\* spaces U+2000 to U+200A, the line and paragraph separators, the narrow
\* no-break space, the medium mathematical space, the ideographic space and
\* the byte order mark
IsWhiteSpace(c) ==
    c \in {" ", "\t", "\n", "\r", "\f", "", "U00A0", "U1680", "U2000", "U2001",
           "U2002", "U2003", "U2004", "U2005", "U2006", "U2007", "U2008", "U2009",
           "U200A", "U2028", "U2029", "U202F", "U205F", "U3000", "UFEFF"}
\* the characters `.` does not match (no s flag)
IsLineTerminator(c) == c \in {"\n", "\r", "U2028", "U2029"}

\* String.prototype.trim
\* the first position from i on, and the last position up to i, that holds no
\* white space (Len(s) + 1 and 0 when there is none)
RECURSIVE FirstKept(_, _)
FirstKept(s, i) == IF i > Len(s) \/ ~IsWhiteSpace(s[i]) THEN i ELSE FirstKept(s, i + 1)
RECURSIVE LastKept(_, _)
LastKept(s, i) == IF i < 1 \/ ~IsWhiteSpace(s[i]) THEN i ELSE LastKept(s, i - 1)
trim(s) == SubSeq(s, FirstKept(s, 1), LastKept(s, Len(s)))

\* String.prototype.startsWith: the code units of prefix are the first of s
startsWith(s, prefix) ==
    LET u == CodeUnits(s)
        v == CodeUnits(prefix)
    IN  /\ Len(v) <= Len(u)
        /\ \A i \in 1..Len(v) : u[i] = v[i]

(***************************************************************************)
(* Regular expressions of validateQuery, all with the i flag.  A pattern   *)
(* is a sequence of items: a literal character, \s+, \s* or .*             *)
(***************************************************************************)
Lit(chars) == [i \in 1..Len(chars) |-> [t |-> "lit", c |-> chars[i]]]
WsPlus == <<[t |-> "ws+", c |-> ""]>>
WsStar == <<[t |-> "ws*", c |-> ""]>>
DotStar == <<[t |-> ".*", c |-> ""]>>

\* can items k.. of pat match a substring of s that starts at position j
RECURSIVE MatchFrom(_, _, _, _)
MatchFrom(pat, k, s, j) ==
    IF k > Len(pat) THEN TRUE
    ELSE LET it == pat[k] IN
         CASE it.t = "lit" ->
                /\ j <= Len(s)
                /\ Canonicalize(s[j]) = Canonicalize(it.c)
                /\ MatchFrom(pat, k + 1, s, j + 1)
           [] it.t = "ws+" ->
                /\ j <= Len(s)
                /\ IsWhiteSpace(s[j])
                /\ \/ MatchFrom(pat, k + 1, s, j + 1)
                   \/ MatchFrom(pat, k, s, j + 1)
           [] it.t = "ws*" ->
                \/ MatchFrom(pat, k + 1, s, j)
                \/ /\ j <= Len(s)
                   /\ IsWhiteSpace(s[j])
                   /\ MatchFrom(pat, k, s, j + 1)
           [] it.t = ".*" ->
                \/ MatchFrom(pat, k + 1, s, j)
                \/ /\ j <= Len(s)
                   /\ ~IsLineTerminator(s[j])
                   /\ MatchFrom(pat, k, s, j + 1)

\* mutant: the pattern is matched at the start of s only
testAnchored(pat, s) == MatchFrom(pat, 1, s, 1)

\* RegExp.prototype.test: the pattern matches somewhere in s
test(pat, s) == \E j \in 1..(Len(s) + 1) : MatchFrom(pat, 1, s, j)

K_DROP == <<"D", "R", "O", "P">>
K_TABLE == <<"T", "A", "B", "L", "E">>
K_DATABASE == <<"D", "A", "T", "A", "B", "A", "S", "E">>
K_TRUNCATE == <<"T", "R", "U", "N", "C", "A", "T", "E">>
K_ALTER == <<"A", "L", "T", "E", "R">>
K_CREATE == <<"C", "R", "E", "A", "T", "E">>
K_DELETE == <<"D", "E", "L", "E", "T", "E">>
K_FROM == <<"F", "R", "O", "M">>
K_WHERE == <<"W", "H", "E", "R", "E">>
K_UPDATE == <<"U", "P", "D", "A", "T", "E">>
K_SET == <<"S", "E", "T">>
K_SELECT == <<"S", "E", "L", "E", "C", "T">>
K_INSERT == <<"I", "N", "S", "E", "R", "T">>

\* WHERE\s*1\s*=\s*1
WhereOneEqOne ==
    Lit(K_WHERE) \o WsStar \o Lit(<<"1">>) \o WsStar \o Lit(<<"=">>) \o WsStar
        \o Lit(<<"1">>)

dangerousPatterns ==
    << Lit(K_DROP) \o WsPlus \o Lit(K_TABLE),
       Lit(K_DROP) \o WsPlus \o Lit(K_DATABASE),
       Lit(K_TRUNCATE),
       Lit(K_ALTER) \o WsPlus \o Lit(K_TABLE),
       Lit(K_CREATE) \o WsPlus \o Lit(K_TABLE),
       Lit(K_DELETE) \o WsPlus \o Lit(K_FROM) \o DotStar \o WhereOneEqOne,
       Lit(K_UPDATE) \o DotStar \o Lit(K_SET) \o DotStar \o WhereOneEqOne >>

(***************************************************************************)
(* JavaScript values of a statement request's fields, and error messages.  *)
(***************************************************************************)
Str(chars) == [type |-> "string", chars |-> chars]
Undefined == [type |-> "undefined", chars |-> <<>>]

\* an error message: a fixed text followed by an interpolated string
Msg(text, arg) == [text |-> text, arg |-> arg]

MismatchError(operation) ==
    Msg("Query does not match expected operation: ", operation)
DangerousError == Msg("Query contains potentially dangerous operations", <<>>)
NotArrayError == Msg("Queries must be an array", <<>>)
TypeErrorMsg == Msg("TypeError", <<>>)
\* the message of the error the driver raises from the named call
DriverError(call) == Msg("driver error", <<call>>)

(***************************************************************************)
(* validateQuery(query, operation): the outcome is {valid}, {valid: false, *)
(* error}, or a TypeError thrown when query or operation is no string.     *)
(***************************************************************************)
validateQuery(query, operation) ==
    IF query.type # "string" \/ operation.type # "string"
    THEN [threw |-> TRUE, valid |-> FALSE, error |-> TypeErrorMsg]
    ELSE LET normalizedQuery == toUpperCase(trim(query.chars))
             normalizedOperation == toUpperCase(operation.chars)
         IN  IF ~startsWith(normalizedQuery, normalizedOperation)
             THEN [threw |-> FALSE, valid |-> FALSE,
                   error |-> MismatchError(operation.chars)]
             ELSE IF \E n \in 1..Len(dangerousPatterns) :
                        test(dangerousPatterns[n], query.chars)
             THEN [threw |-> FALSE, valid |-> FALSE, error |-> DangerousError]
             ELSE [threw |-> FALSE, valid |-> TRUE, error |-> Msg("", <<>>)]

(***************************************************************************)
(* formatQueryResult(result, operation).  A raw driver result is either a  *)
(* sequence of rows (an array, without insertId or affectedRows) or a      *)
(* result header with insertId and affectedRows (an object, without        *)
(* length).                                                                *)
(***************************************************************************)
Rows(rows) == [isRows |-> TRUE, rows |-> rows]
Header(insertId, affectedRows) ==
    [isRows |-> FALSE, insertId |-> insertId, affectedRows |-> affectedRows]

\* result.length: the number of rows of an array, undefined on a header
Length(result) == IF result.isRows THEN Len(result.rows) ELSE Undefined
\* result.insertId, result.affectedRows: undefined where the property is absent
Property(result, name) == IF name \in DOMAIN result THEN result[name] ELSE Undefined

\* mutant: the operation label is compared as it is written
formatQueryResultCaseSensitive(result, operation) ==
    IF operation.chars = K_SELECT
    THEN [data |-> result, count |-> Length(result), operation |-> operation]
    ELSE IF operation.chars = K_INSERT
    THEN [insertId |-> Property(result, "insertId"),
          affectedRows |-> Property(result, "affectedRows"), operation |-> operation]
    ELSE IF operation.chars = K_UPDATE \/ operation.chars = K_DELETE
    THEN [affectedRows |-> Property(result, "affectedRows"), operation |-> operation]
    ELSE [result |-> result, operation |-> operation]

formatQueryResult(result, operation) ==
    LET normalizedOperation == toUpperCase(operation.chars) IN
    IF normalizedOperation = K_SELECT
    THEN [data |-> result, count |-> Length(result), operation |-> operation]
    ELSE IF normalizedOperation = K_INSERT
    THEN [insertId |-> Property(result, "insertId"),
          affectedRows |-> Property(result, "affectedRows"), operation |-> operation]
    ELSE IF normalizedOperation = K_UPDATE \/ normalizedOperation = K_DELETE
    THEN [affectedRows |-> Property(result, "affectedRows"), operation |-> operation]
    ELSE [result |-> result, operation |-> operation]

(***************************************************************************)
(* Statement requests the plan generator may emit (the objects of          *)
(* `queries`), and the plans built from them.                              *)
(***************************************************************************)
Arr(items) == [type |-> "array", chars |-> items]

\* a well-formed INSERT
S_insert ==
    [query |-> Str(<<"I", "N", "S", "E", "R", "T", " ", "I", "N", "T", "O", " ",
                     "t", " ", "V", "A", "L", "U", "E", "S", " ", "(", "?", ")">>),
     parameters |-> Arr(<<"a@x.com">>),
     operation |-> Str(K_INSERT)]
\* a lower-case SELECT with a mixed-case label and no parameters field
S_select ==
    [query |-> Str(<<" ", "s", "e", "l", "e", "c", "t", " ", "*", " ", "f", "r",
                     "o", "m", " ", "t">>),
     parameters |-> Undefined,
     operation |-> Str(<<"S", "e", "l", "e", "c", "t">>)]
\* a mass delete
S_deleteAll ==
    [query |-> Str(<<"D", "E", "L", "E", "T", "E", " ", "F", "R", "O", "M", " ",
                     "t", " ", "W", "H", "E", "R", "E", " ", "1", "=", "1">>),
     parameters |-> Arr(<<>>),
     operation |-> Str(K_DELETE)]
\* an UPDATE labelled SELECT
S_mislabel ==
    [query |-> Str(<<"U", "P", "D", "A", "T", "E", " ", "t", " ", "S", "E", "T",
                     " ", "a", " ", "=", " ", "?">>),
     parameters |-> Arr(<<"b">>),
     operation |-> Str(K_SELECT)]
\* an object without a query field
S_noQuery ==
    [query |-> Undefined, parameters |-> Arr(<<>>), operation |-> Str(K_INSERT)]

StatementRequests == {S_insert, S_select, S_deleteAll, S_mislabel, S_noQuery}

RECURSIVE SeqsUpTo(_, _)
SeqsUpTo(S, n) ==
    IF n = 0 THEN {<<>>}
    ELSE LET shorter == SeqsUpTo(S, n - 1)
         IN  shorter \cup {Append(s, x) : s \in {t \in shorter : Len(t) = n - 1}, x \in S}

\* the values of the `queries` argument: arrays of statement requests, or
\* something that is no array
NotAnArray == [isArray |-> FALSE, items |-> <<>>]
QueriesValues ==
    {NotAnArray} \cup {[isArray |-> TRUE, items |-> s] : s \in SeqsUpTo(StatementRequests, MaxQueries)}

\* the arguments of a call: call 1 takes any plan; call 2, the request that runs
\* beside it, takes a bulk plan of two statements, the second of which is a
\* write or is rejected
Arguments(p) ==
    IF p = 1 THEN QueriesValues \X BOOLEAN
    ELSE {[isArray |-> TRUE, items |-> <<S_insert, b>>] : b \in {S_insert, S_deleteAll}}
             \X {TRUE}

(***************************************************************************)
(* The database behind the pool.  A statement that is no SELECT writes;    *)
(* a write is identified by the plan and position that issued it.          *)
(***************************************************************************)
\* the server reads a statement as a SELECT by its first keyword: the six
\* characters after the leading white space, in any letter case
IsSelectText(query) ==
    LET first == FirstKept(query.chars, 1)
        last == IF first + 5 <= Len(query.chars) THEN first + 5 ELSE Len(query.chars)
    IN  startsWith(toUpperCase(SubSeq(query.chars, first, last)), K_SELECT)

\* what the server answers to a statement that sees the writes `visible`
ServerResult(query, visible) ==
    IF IsSelectText(query)
    THEN Rows([k \in 1..Cardinality(visible) |-> "row"])
    ELSE Header(Cardinality(visible) + 1, 1)

\* the writes a statement adds
ServerWrites(query, tag) == IF IsSelectText(query) THEN {} ELSE {tag}

(***************************************************************************)
(* State.                                                                  *)
(***************************************************************************)
\* two calls of execute run concurrently (two HTTP requests)
Plans == {1, 2}
Conns == 1..NumConns
NoConn == 0

VARIABLES
    pc,               \* where each call of execute stands: the await it is suspended at
    queries,          \* argument `queries` of each call
    isBulk,           \* argument `isBulk` of each call
    idx,              \* position of the for-of loop in `queries`
    results,          \* local `results`
    connection,       \* local `connection` (NoConn: none acquired or already released)
    validationResult, \* local `validationResult` of the rejected statement
    error,            \* `error` bound by the inner catch
    outcome,          \* what execute returned
    trace,            \* per call: the validations made and driver calls issued, in order
    free,             \* connections idle in the pool
    txn,              \* per connection: open transaction and its uncommitted writes
    committed,        \* writes durable in the database
    faults,           \* driver errors raised so far
    handler,          \* per request: the await the POST /api/agent handler stands at
    generation,       \* per request: calls of the plan generator and what it answered
    response          \* per request: the HTTP response sent

\* the state of the HTTP handler of each request
http == <<handler, generation, response>>

vars == <<pc, queries, isBulk, idx, results, connection, validationResult, error,
          outcome, trace, free, txn, committed, faults, http>>

NoOutcome == [pending |-> TRUE]
NoMsg == Msg("", <<>>)
NoTxn == [open |-> FALSE, writes |-> {}]
\* no request received, no answer of the generator, no response sent
NoRequest == [stage |-> "idle", table |-> 0, thrown |-> NoMsg]
NoGeneration == [calls |-> 0, output |-> [kind |-> "none"]]
NoResponse == [sent |-> FALSE]

Init ==
    /\ pc = [p \in Plans |-> "idle"]
    /\ queries = [p \in Plans |-> NotAnArray]
    /\ isBulk = [p \in Plans |-> FALSE]
    /\ idx = [p \in Plans |-> 0]
    /\ results = [p \in Plans |-> <<>>]
    /\ connection = [p \in Plans |-> NoConn]
    /\ validationResult = [p \in Plans |-> NoMsg]
    /\ error = [p \in Plans |-> NoMsg]
    /\ outcome = [p \in Plans |-> NoOutcome]
    /\ trace = [p \in Plans |-> <<>>]
    /\ free = Conns
    /\ txn = [c \in Conns |-> NoTxn]
    /\ committed = {}
    /\ faults = 0
    /\ handler = [p \in Plans |-> NoRequest]
    /\ generation = [p \in Plans |-> NoGeneration]
    /\ response = [p \in Plans |-> NoResponse]

(***************************************************************************)
(* Trace events.                                                           *)
(***************************************************************************)
\* a validation of statement i: st is "valid", "rejected" or "threw"
Validated(i, stmt, st) ==
    [ev |-> "validate", idx |-> i, st |-> st, conn |-> NoConn,
     query |-> stmt.query, parameters |-> stmt.parameters,
     operation |-> stmt.operation, raw |-> Header(0, 0)]
\* a driver call issued on connection c (NoConn: on the pool): st is "pending"
\* until the call completes with "ok" or "error"
Issued(call, i, c, query, parameters) ==
    [ev |-> call, idx |-> i, st |-> "pending", conn |-> c,
     query |-> query, parameters |-> parameters,
     operation |-> Undefined, raw |-> Header(0, 0)]
Call0(call, c) == Issued(call, 0, c, Undefined, Undefined)

\* the last event of tr completed with state st and raw result raw
Completed(tr, st, raw) ==
    [tr EXCEPT ![Len(tr)] = [@ EXCEPT !.st = st, !.raw = raw]]

\* `parameters = []` of the destructuring
ParametersOf(stmt) ==
    IF stmt.parameters.type = "undefined" THEN Arr(<<>>) ELSE stmt.parameters

(***************************************************************************)
(* Outcomes.                                                               *)
(***************************************************************************)
Failure(msg) == [success |-> FALSE, error |-> msg]

\* mutant: the strategy looks at the flag alone
UseTransactionFlagOnly(q, bulk) == bulk

\* line 46: the strategy
UseTransaction(q, bulk) == bulk /\ Len(q.items) > 1

\* mutant: the transactional return is a copy of the sequential one
BulkSuccessAsSequential(q, r) ==
    [success |-> TRUE,
     results |-> IF Len(q.items) = 1 THEN r[1] ELSE r,
     totalQueries |-> Len(q.items),
     isBulk |-> FALSE]

\* lines 67-72
BulkSuccess(q, r) ==
    [success |-> TRUE, results |-> r, totalQueries |-> Len(q.items), isBulk |-> TRUE]

\* mutant: the flag of the result is derived from the number of statements
SequentialSuccessFlagByCount(q, r) ==
    [success |-> TRUE,
     results |-> IF Len(q.items) = 1 THEN r[1] ELSE r,
     totalQueries |-> Len(q.items),
     isBulk |-> Len(q.items) > 1]

\* lines 94-99
SequentialSuccess(q, r) ==
    [success |-> TRUE,
     results |-> IF Len(q.items) = 1 THEN r[1] ELSE r,
     totalQueries |-> Len(q.items),
     isBulk |-> FALSE]

(***************************************************************************)
(* The synchronous code of execute between two awaits.  Each operator      *)
(* gives the locals of the call when it next suspends or returns, and the  *)
(* events it adds to the trace.                                            *)
(***************************************************************************)
Cont(pcv, i, r, vr, err, out, evs) ==
    [pc |-> pcv, idx |-> i, results |-> r, validationResult |-> vr, error |-> err,
     outcome |-> out, events |-> evs]

\* mutant: a result is put in front of the earlier ones
PushFront(r, x) == <<x>> \o r

\* lines 63 and 91: results.push
Push(r, x) == Append(r, x)

\* a return or the outer catch (lines 101-103): execute ends with outcome out
Return(i, r, out, evs) == Cont("done", i, r, NoMsg, NoMsg, out, evs)

\* mutant: the sequential strategy reports every rejection with one fixed message
SeqRejectedFixedMessage(v, i, stmt, r) ==
    Return(i, r, Failure(DangerousError), <<Validated(i, stmt, "rejected")>>)

\* lines 86-88: the sequential strategy returns the rejection
SeqRejected(v, i, stmt, r) ==
    Return(i, r, Failure(v.error), <<Validated(i, stmt, "rejected")>>)

\* mutant: the pool receives the normalised text the validator looked at
SeqSendNormalized(i, stmt, r) ==
    Cont("pool.query", i, r, NoMsg, NoMsg, NoOutcome,
         <<Validated(i, stmt, "valid"),
           Issued("pool.query", i, NoConn, Str(toUpperCase(trim(stmt.query.chars))),
                  ParametersOf(stmt))>>)

\* line 90: the statement goes to the pool
SeqSend(i, stmt, r) ==
    Cont("pool.query", i, r, NoMsg, NoMsg, NoOutcome,
         <<Validated(i, stmt, "valid"),
           Issued("pool.query", i, NoConn, stmt.query, ParametersOf(stmt))>>)

\* mutant: the sequential loop sends each statement without validating it
SeqLoopUnvalidated(q, i, r) ==
    IF i > Len(q.items) THEN Return(i, r, SequentialSuccess(q, r), <<>>)
    ELSE Cont("pool.query", i, r, NoMsg, NoMsg, NoOutcome,
              <<Issued("pool.query", i, NoConn, q.items[i].query,
                       ParametersOf(q.items[i]))>>)

\* lines 81-99 from statement i on, with the outer catch for a TypeError
SeqLoop(q, i, r) ==
    IF i > Len(q.items) THEN Return(i, r, SequentialSuccess(q, r), <<>>)
    ELSE LET stmt == q.items[i]
             v == validateQuery(stmt.query, stmt.operation)
         IN  IF v.threw
             THEN Return(i, r, Failure(v.error), <<Validated(i, stmt, "threw")>>)
             ELSE IF ~v.valid THEN SeqRejected(v, i, stmt, r)
             ELSE SeqSend(i, stmt, r)

\* mutant: the inner catch commits what was done instead of rolling it back
TxCatchCommits(err, i, r, c, evs) ==
    Cont("commit", i, r, NoMsg, err, NoOutcome, evs \o <<Call0("commit", c)>>)

\* lines 73-74: the inner catch binds the error and awaits rollback
TxCatch(err, i, r, c, evs) ==
    Cont("rollbackCatch", i, r, NoMsg, err, NoOutcome, evs \o <<Call0("rollback", c)>>)

\* mutant: a rejected statement is reported and sent to the connection all the same
TxRejectedSendsAnyway(v, i, stmt, r, c) ==
    Cont("connection.query", i, r, NoMsg, NoMsg, NoOutcome,
         <<Validated(i, stmt, "rejected"),
           Issued("connection.query", i, c, stmt.query, ParametersOf(stmt))>>)

\* mutant: a rejected statement ends the loop and the plan is committed
TxRejectedCommits(v, i, stmt, r, c) ==
    Cont("commit", i, r, v.error, NoMsg, NoOutcome,
         <<Validated(i, stmt, "rejected"), Call0("commit", c)>>)

\* lines 57-58: a rejected statement awaits rollback
TxRejected(v, i, stmt, r, c) ==
    Cont("rollbackRejected", i, r, v.error, NoMsg, NoOutcome,
         <<Validated(i, stmt, "rejected"), Call0("rollback", c)>>)

\* line 62: the statement goes to the connection
TxSend(i, stmt, r, c) ==
    Cont("connection.query", i, r, NoMsg, NoMsg, NoOutcome,
         <<Validated(i, stmt, "valid"),
           Issued("connection.query", i, c, stmt.query, ParametersOf(stmt))>>)

\* line 66: after the loop, commit
TxCommit(i, r, c) ==
    Cont("commit", i, r, NoMsg, NoMsg, NoOutcome, <<Call0("commit", c)>>)

\* mutant: the loop stops one statement early
TxLoopStopsEarly(q, i, r, c) ==
    IF i >= Len(q.items) THEN TxCommit(i, r, c)
    ELSE LET stmt == q.items[i]
             v == validateQuery(stmt.query, stmt.operation)
         IN  IF v.threw
             THEN TxCatch(v.error, i, r, c, <<Validated(i, stmt, "threw")>>)
             ELSE IF ~v.valid THEN TxRejected(v, i, stmt, r, c)
             ELSE TxSend(i, stmt, r, c)

\* lines 52-66 from statement i on
TxLoop(q, i, r, c) ==
    IF i > Len(q.items) THEN TxCommit(i, r, c)
    ELSE LET stmt == q.items[i]
             v == validateQuery(stmt.query, stmt.operation)
         IN  IF v.threw
             THEN TxCatch(v.error, i, r, c, <<Validated(i, stmt, "threw")>>)
             ELSE IF ~v.valid THEN TxRejected(v, i, stmt, r, c)
             ELSE TxSend(i, stmt, r, c)

\* mutant: a `queries` that is no array makes execute throw to its caller
EntryThrowsOnNonArray(q, bulk) ==
    IF ~q.isArray THEN Return(0, <<>>, [threw |-> TRUE, error |-> NotArrayError], <<>>)
    ELSE IF UseTransaction(q, bulk)
    THEN Cont("getConnection", 0, <<>>, NoMsg, NoMsg, NoOutcome,
              <<Call0("getConnection", NoConn)>>)
    ELSE SeqLoop(q, 1, <<>>)

\* lines 37-48: the entry of execute up to its first await or return
Entry(q, bulk) ==
    IF ~q.isArray THEN Return(0, <<>>, Failure(NotArrayError), <<>>)
    ELSE IF UseTransaction(q, bulk)
    THEN Cont("getConnection", 0, <<>>, NoMsg, NoMsg, NoOutcome,
              <<Call0("getConnection", NoConn)>>)
    ELSE SeqLoop(q, 1, <<>>)

\* the locals of call p become k, its trace tr followed by k's events
Resume(p, k, tr) ==
    /\ pc' = [pc EXCEPT ![p] = k.pc]
    /\ idx' = [idx EXCEPT ![p] = k.idx]
    /\ results' = [results EXCEPT ![p] = k.results]
    /\ validationResult' = [validationResult EXCEPT ![p] = k.validationResult]
    /\ error' = [error EXCEPT ![p] = k.error]
    /\ outcome' = [outcome EXCEPT ![p] = k.outcome]
    /\ trace' = [trace EXCEPT ![p] = tr \o k.events]

\* mutant: execute ends without giving the connection back
ReleaseForgotten(p, c, k, tr) ==
    /\ Resume(p, k, tr)
    /\ UNCHANGED <<connection, free>>

\* mutant: the catch block gives the connection back and the finally block
\* gives it back again
ReleaseTwice(p, c, k, tr) ==
    /\ Resume(p, k, tr \o <<[Call0("release", c) EXCEPT !.st = "ok"],
                            [Call0("release", c) EXCEPT !.st = "ok"]>>)
    /\ connection' = [connection EXCEPT ![p] = NoConn]
    /\ free' = free \cup {c}

\* line 77: the finally block gives the connection back, then execute ends
Release(p, c, k, tr) ==
    /\ Resume(p, k, tr \o <<[Call0("release", c) EXCEPT !.st = "ok"]>>)
    /\ connection' = [connection EXCEPT ![p] = NoConn]
    /\ free' = free \cup {c}

\* the driver raises an error from the call that completes
Fault ==
    /\ faults < MaxFaults
    /\ faults' = faults + 1

(***************************************************************************)
(* Actions.                                                                *)
(***************************************************************************)
\* execute({queries, isBulk}) is called
Call(p, q, bulk) ==
    /\ pc[p] = "idle"
    /\ queries' = [queries EXCEPT ![p] = q]
    /\ isBulk' = [isBulk EXCEPT ![p] = bulk]
    /\ Resume(p, Entry(q, bulk), <<>>)
    /\ UNCHANGED <<http, connection, free, txn, committed, faults>>

\* lines 90-99: pool.query completes with the result raw
PoolQueryReturns(p, raw) ==
    /\ pc[p] = "pool.query"
    /\ LET q == queries[p]
           i == idx[p]
           stmt == q.items[i]
           r == Push(results[p], formatQueryResult(raw, stmt.operation))
       IN  /\ committed' = committed \cup ServerWrites(stmt.query, <<p, i>>)
           /\ Resume(p, SeqLoop(q, i + 1, r), Completed(trace[p], "ok", raw))
    /\ UNCHANGED <<http, queries, isBulk, connection, free, txn, faults>>

\* line 90: pool.query completes with what the server answers to the statement
PoolQueryOk(p) ==
    /\ pc[p] = "pool.query"
    /\ PoolQueryReturns(p, ServerResult(queries[p].items[idx[p]].query, committed))

\* line 90 throws: the outer catch returns the driver's message
PoolQueryError(p) ==
    /\ pc[p] = "pool.query"
    /\ Fault
    /\ Resume(p, Return(idx[p], results[p], Failure(DriverError("pool.query")), <<>>),
              Completed(trace[p], "error", Header(0, 0)))
    /\ UNCHANGED <<http, queries, isBulk, connection, free, txn, committed>>

\* mutant: every call works on one shared connection, idle or not
GetConnectionOkShared(p) ==
    /\ pc[p] = "getConnection"
    /\ \E c \in Conns :
        /\ free' = free \ {c}
        /\ connection' = [connection EXCEPT ![p] = c]
        /\ Resume(p, Cont("beginTransaction", 0, <<>>, NoMsg, NoMsg, NoOutcome,
                          <<Call0("beginTransaction", c)>>),
                  [Completed(trace[p], "ok", Header(0, 0)) EXCEPT ![Len(trace[p])].conn = c])
    /\ UNCHANGED <<http, queries, isBulk, txn, committed, faults>>

\* line 48: the pool hands out an idle connection, any of them (the call waits
\* while none is idle); line 50 awaits beginTransaction
GetConnectionOk(p) ==
    /\ pc[p] = "getConnection"
    /\ \E c \in free :
        /\ free' = free \ {c}
        /\ connection' = [connection EXCEPT ![p] = c]
        /\ Resume(p, Cont("beginTransaction", 0, <<>>, NoMsg, NoMsg, NoOutcome,
                          <<Call0("beginTransaction", c)>>),
                  [Completed(trace[p], "ok", Header(0, 0)) EXCEPT ![Len(trace[p])].conn = c])
    /\ UNCHANGED <<http, queries, isBulk, txn, committed, faults>>

\* line 48 throws outside the inner try: the outer catch returns the message
GetConnectionError(p) ==
    /\ pc[p] = "getConnection"
    /\ Fault
    /\ Resume(p, Return(0, <<>>, Failure(DriverError("getConnection")), <<>>),
              Completed(trace[p], "error", Header(0, 0)))
    /\ UNCHANGED <<http, queries, isBulk, connection, free, txn, committed>>

\* line 50 completes: the loop starts.  The server starts the transaction
\* empty: writes that a failed rollback left uncommitted on the connection are
\* lost, never committed.
BeginOk(p) ==
    /\ pc[p] = "beginTransaction"
    /\ LET c == connection[p] IN
        /\ txn' = [txn EXCEPT ![c] = [open |-> TRUE, writes |-> {}]]
        /\ Resume(p, TxLoop(queries[p], 1, <<>>, c), Completed(trace[p], "ok", Header(0, 0)))
    /\ UNCHANGED <<http, queries, isBulk, connection, free, committed, faults>>

\* line 50 throws
BeginError(p) ==
    /\ pc[p] = "beginTransaction"
    /\ Fault
    /\ Resume(p, TxCatch(DriverError("beginTransaction"), 0, <<>>, connection[p], <<>>),
              Completed(trace[p], "error", Header(0, 0)))
    /\ UNCHANGED <<http, queries, isBulk, connection, free, txn, committed>>

\* line 62 completes: the write stays in the transaction, the result is pushed
TxQueryOk(p) ==
    /\ pc[p] = "connection.query"
    /\ LET q == queries[p]
           i == idx[p]
           c == connection[p]
           stmt == q.items[i]
           raw == ServerResult(stmt.query, committed \cup txn[c].writes)
           r == Push(results[p], formatQueryResult(raw, stmt.operation))
       IN  /\ txn' = [txn EXCEPT ![c].writes = @ \cup ServerWrites(stmt.query, <<p, i>>)]
           /\ Resume(p, TxLoop(q, i + 1, r, c), Completed(trace[p], "ok", raw))
    /\ UNCHANGED <<http, queries, isBulk, connection, free, committed, faults>>

\* line 62 throws
TxQueryError(p) ==
    /\ pc[p] = "connection.query"
    /\ Fault
    /\ Resume(p, TxCatch(DriverError("connection.query"), idx[p], results[p],
                         connection[p], <<>>),
              Completed(trace[p], "error", Header(0, 0)))
    /\ UNCHANGED <<http, queries, isBulk, connection, free, txn, committed>>

\* line 66 completes: the writes become durable; lines 67-72 return, line 77 releases
CommitOk(p) ==
    /\ pc[p] = "commit"
    /\ LET c == connection[p] IN
        /\ committed' = committed \cup txn[c].writes
        /\ txn' = [txn EXCEPT ![c] = NoTxn]
        /\ Release(p, c, Return(idx[p], results[p], BulkSuccess(queries[p], results[p]), <<>>),
                   Completed(trace[p], "ok", Header(0, 0)))
    /\ UNCHANGED <<http, queries, isBulk, faults>>

\* mutant: an error of commit is swallowed and the plan is reported as done
CommitErrorIgnored(p) ==
    /\ pc[p] = "commit"
    /\ Fault
    /\ Release(p, connection[p],
               Return(idx[p], results[p], BulkSuccess(queries[p], results[p]), <<>>),
               Completed(trace[p], "error", Header(0, 0)))
    /\ UNCHANGED <<http, queries, isBulk, txn, committed>>

\* line 66 throws
CommitError(p) ==
    /\ pc[p] = "commit"
    /\ Fault
    /\ Resume(p, TxCatch(DriverError("commit"), idx[p], results[p], connection[p], <<>>),
              Completed(trace[p], "error", Header(0, 0)))
    /\ UNCHANGED <<http, queries, isBulk, connection, free, txn, committed>>

\* line 58 completes: line 59 returns the rejection, line 77 releases
RollbackRejectedOk(p) ==
    /\ pc[p] = "rollbackRejected"
    /\ LET c == connection[p] IN
        /\ txn' = [txn EXCEPT ![c] = NoTxn]
        /\ Release(p, c, Return(idx[p], results[p], Failure(validationResult[p]), <<>>),
                   Completed(trace[p], "ok", Header(0, 0)))
    /\ UNCHANGED <<http, queries, isBulk, committed, faults>>

\* line 58 throws inside the inner try: the catch of line 73 takes it
RollbackRejectedError(p) ==
    /\ pc[p] = "rollbackRejected"
    /\ Fault
    /\ Resume(p, TxCatch(DriverError("rollback"), idx[p], results[p], connection[p], <<>>),
              Completed(trace[p], "error", Header(0, 0)))
    /\ UNCHANGED <<http, queries, isBulk, connection, free, txn, committed>>

\* line 74 completes: line 75 rethrows, line 77 releases, the outer catch returns
RollbackCatchOk(p) ==
    /\ pc[p] = "rollbackCatch"
    /\ LET c == connection[p] IN
        /\ txn' = [txn EXCEPT ![c] = NoTxn]
        /\ Release(p, c, Return(idx[p], results[p], Failure(error[p]), <<>>),
                   Completed(trace[p], "ok", Header(0, 0)))
    /\ UNCHANGED <<http, queries, isBulk, committed, faults>>

\* line 74 throws out of the catch block: line 77 releases, the outer catch
\* returns the message of the rollback's error
RollbackCatchError(p) ==
    /\ pc[p] = "rollbackCatch"
    /\ Fault
    /\ Release(p, connection[p],
               Return(idx[p], results[p], Failure(DriverError("rollback")), <<>>),
               Completed(trace[p], "error", Header(0, 0)))
    /\ UNCHANGED <<http, queries, isBulk, txn, committed>>

Next ==
    \E p \in Plans :
        \/ \E a \in Arguments(p) : Call(p, a[1], a[2])
        \/ PoolQueryOk(p)
        \/ PoolQueryError(p)
        \/ GetConnectionOk(p)
        \/ GetConnectionError(p)
        \/ BeginOk(p)
        \/ BeginError(p)
        \/ TxQueryOk(p)
        \/ TxQueryError(p)
        \/ CommitOk(p)
        \/ CommitError(p)
        \/ RollbackRejectedOk(p)
        \/ RollbackRejectedError(p)
        \/ RollbackCatchOk(p)
        \/ RollbackCatchError(p)

Spec == Init /\ [][Next]_vars

(***************************************************************************)
(* The statement texts and operation labels the plan generator may emit,   *)
(* for the validator: statement shapes written in upper, lower or mixed    *)
(* case, their parts separated by a space or a line break, with or without *)
(* leading white space.                                                    *)
(***************************************************************************)
\* the lower-case form of each upper-case ASCII letter
LowerOf ==
    [c \in {UpperCase[i] : i \in 1..Len(UpperCase)} |->
        LowerCase[CHOOSE i \in 1..Len(UpperCase) : UpperCase[i] = c]]
toLowerCase(s) == [i \in 1..Len(s) |-> IF s[i] \in DOMAIN LowerOf THEN LowerOf[s[i]] ELSE s[i]]
\* every second letter in lower case
AlternateCase(s) ==
    [i \in 1..Len(s) |->
        IF i % 2 = 0 /\ s[i] \in DOMAIN LowerOf THEN LowerOf[s[i]] ELSE s[i]]
\* the three ways a text is written
Casings == {"upper", "lower", "mixed"}
InCase(casing, s) ==
    CASE casing = "upper" -> s
      [] casing = "lower" -> toLowerCase(s)
      [] casing = "mixed" -> AlternateCase(s)

\* the parts of a statement, joined by a separator
RECURSIVE Join(_, _)
Join(parts, gap) ==
    IF Len(parts) = 0 THEN <<>>
    ELSE IF Len(parts) = 1 THEN parts[1]
    ELSE parts[1] \o gap \o Join(Tail(parts), gap)

\* a space, a line break or a vertical tab between the parts
Gaps == {<<" ">>, <<"\n">>, <<"">>}
Leads == {<<>>, <<" ">>}

StatementShapes ==
    {
      \* a SELECT
      <<<<"S", "E", "L", "E", "C", "T", " ", "*">>,
        <<"F", "R", "O", "M", " ", "t">>>>,
      \* an INSERT
      <<<<"I", "N", "S", "E", "R", "T", " ", "I", "N", "T", "O", " ", "t">>,
        <<"V", "A", "L", "U", "E", "S", " ", "(", "?", ")">>>>,
      \* an UPDATE of every row: no WHERE clause
      <<<<"U", "P", "D", "A", "T", "E", " ", "t">>,
        <<"S", "E", "T", " ", "a", " ", "=", " ", "?">>>>,
      \* an UPDATE of some rows
      <<<<"U", "P", "D", "A", "T", "E", " ", "t">>,
        <<"S", "E", "T", " ", "a", " ", "=", " ", "?">>,
        <<"W", "H", "E", "R", "E", " ", "i", "d", " ", "=", " ", "?">>>>,
      \* an UPDATE under a tautology
      <<<<"U", "P", "D", "A", "T", "E", " ", "t">>,
        <<"S", "E", "T", " ", "a", " ", "=", " ", "?">>,
        <<"W", "H", "E", "R", "E", " ", "1", "=", "1">>>>,
      \* a DELETE of every row: no WHERE clause
      <<<<"D", "E", "L", "E", "T", "E", " ", "F", "R", "O", "M", " ", "t">>>>,
      \* a DELETE of some rows
      <<<<"D", "E", "L", "E", "T", "E", " ", "F", "R", "O", "M", " ", "t">>,
        <<"W", "H", "E", "R", "E", " ", "i", "d", " ", "=", " ", "?">>>>,
      \* a DELETE under a tautology
      <<<<"D", "E", "L", "E", "T", "E", " ", "F", "R", "O", "M">>,
        <<"t">>,
        <<"W", "H", "E", "R", "E", " ", "1", "=", "1">>>>,
      \* schema-destructive statements
      <<<<"D", "R", "O", "P", " ", "T", "A", "B", "L", "E">>,
        <<"t">>>>,
      <<<<"D", "R", "O", "P", " ", "D", "A", "T", "A", "B", "A", "S", "E">>,
        <<"d">>>>,
      <<<<"T", "R", "U", "N", "C", "A", "T", "E">>,
        <<"t">>>>,
      <<<<"A", "L", "T", "E", "R", " ", "T", "A", "B", "L", "E">>,
        <<"t", " ", "A", "D", "D", " ", "c", " ", "I", "N", "T">>>>,
      <<<<"C", "R", "E", "A", "T", "E", " ", "T", "A", "B", "L", "E">>,
        <<"t", " ", "(", "c", " ", "I", "N", "T", ")">>>>,
      \* a destructive statement behind a SELECT
      <<<<"S", "E", "L", "E", "C", "T", " ", "1", ";">>,
        <<"D", "R", "O", "P", " ", "T", "A", "B", "L", "E">>,
        <<"t">>>>,
      \* statements of other kinds
      <<<<"S", "H", "O", "W", " ", "T", "A", "B", "L", "E", "S">>>>,
      <<<<"G", "R", "A", "N", "T", " ", "A", "L", "L">>,
        <<"O", "N", " ", "t", " ", "T", "O", " ", "u">>>> }

StatementTexts ==
    {lead \o InCase(casing, Join(parts, gap)) :
         lead \in Leads, casing \in Casings, parts \in StatementShapes, gap \in Gaps}

\* the four operations of the tool, and labels that are none of them: the
\* empty label, prefixes of an operation, other statement kinds
ToolOperations == {K_SELECT, K_INSERT, K_UPDATE, K_DELETE}
OtherLabels ==
    {<<>>, <<"S", "E", "L">>, <<"D", "E", "L">>, <<"U", "P">>, K_DROP, K_TRUNCATE,
     K_ALTER, K_CREATE, <<"S", "H", "O", "W">>, <<"G", "R", "A", "N", "T">>}
OperationLabels ==
    {InCase(casing, k) : casing \in Casings, k \in ToolOperations} \cup OtherLabels

\* a plan of one statement, run without isBulk
ValidatorArguments ==
    {<<[isArray |-> TRUE,
        items |-> <<[query |-> Str(text), parameters |-> Arr(<<>>),
                     operation |-> Str(label)]>>], FALSE>> :
         text \in StatementTexts, label \in OperationLabels}

\* one request: the statement is validated and, when valid, sent to the pool
ValidatorNext ==
    \/ \E a \in ValidatorArguments : Call(1, a[1], a[2])
    \/ PoolQueryOk(1)
    \/ PoolQueryError(1)

ValidatorSpec == Init /\ [][ValidatorNext]_vars

(***************************************************************************)
(* formatQueryResult on any result the driver may answer with: a plan of   *)
(* one statement is validated and, when valid, sent to the pool, and the   *)
(* driver answers it with a sequence of rows or with a result header,      *)
(* whatever the label says.                                                *)
(***************************************************************************)
RowValues == {"r1", "r2"}
RawResults ==
    {Rows(rows) : rows \in SeqsUpTo(RowValues, MaxRows)}
        \cup {Header(0, 0), Header(7, 1)}

\* one statement of each operation of the tool
FormatTexts ==
    {S_select.query.chars,
     S_insert.query.chars,
     <<"U", "P", "D", "A", "T", "E", " ", "t", " ", "S", "E", "T", " ", "a", " ",
       "=", " ", "?", " ", "W", "H", "E", "R", "E", " ", "i", "d", " ", "=", " ", "?">>,
     <<"D", "E", "L", "E", "T", "E", " ", "F", "R", "O", "M", " ", "t", " ",
       "W", "H", "E", "R", "E", " ", "i", "d", " ", "=", " ", "?">>}

\* a plan of one statement under any label, run without isBulk
FormatArguments ==
    {<<[isArray |-> TRUE,
        items |-> <<[query |-> Str(text), parameters |-> Undefined,
                     operation |-> Str(label)]>>], FALSE>> :
         text \in FormatTexts, label \in OperationLabels}

FormatNext ==
    \/ \E a \in FormatArguments : Call(1, a[1], a[2])
    \/ \E raw \in RawResults : PoolQueryReturns(1, raw)

FormatSpec == Init /\ [][FormatNext]_vars

(***************************************************************************)
(* The POST /api/agent handler.  A request loads the schema (SHOW TABLES,  *)
(* then DESCRIBE of each table, on the pool), asks the plan generator,     *)
(* wraps what it answered as the command of the tool executeCustomSQL,     *)
(* awaits execute and answers with its outcome.  The command the handler   *)
(* builds itself always parses and always names that tool; the explanation *)
(* only travels to the response body and is left out.                      *)
(***************************************************************************)
\* the tables SHOW TABLES lists
Tables == <<"User">>

\* what the plan generator answers: a content that is no JSON, the JSON null,
\* or a JSON object with its fields `queries` and `isBulk`
Unparseable == [kind |-> "unparseable"]
JsonNull == [kind |-> "null"]
JsonObject(q, bulk) == [kind |-> "object", queries |-> q, isBulk |-> bulk]

\* the statement requests the generator answers with: one that is executed as
\* a write, one that is executed as a read, one that validation rejects and
\* one that makes validation throw
GeneratedRequests == {S_insert, S_select, S_deleteAll, S_noQuery}

\* the field `queries`: absent, null, another falsy value, a truthy value that
\* is no array, or an array of statement requests
JsonQueries ==
    {[json |-> j, items |-> <<>>] : j \in {"absent", "null", "falsy", "truthy"}}
        \cup {[json |-> "array", items |-> items] :
                  items \in SeqsUpTo(GeneratedRequests, MaxQueries)}
\* the field `isBulk`
JsonFlags == {"absent", "false", "true"}

\* request 1 gets any answer; request 2, which runs beside it, no JSON or the
\* plans of call 2
GeneratorOutputs(p) ==
    IF p = 1
    THEN {Unparseable, JsonNull} \cup {JsonObject(q, b) : q \in JsonQueries, b \in JsonFlags}
    ELSE {Unparseable}
             \cup {JsonObject([json |-> "array", items |-> a[1].items], "true") :
                       a \in Arguments(p)}

\* lines 298-335: the parameters execute receives for the answer g
cleanParameters(g) ==
    [queries |-> IF g.queries.json = "array"
                 THEN [isArray |-> TRUE, items |-> g.queries.items]
                 ELSE IF g.queries.json = "truthy"
                 THEN [isArray |-> TRUE, items |-> <<>>]
                 ELSE NotAnArray,
     isBulk |-> g.isBulk = "true"]

ParseError == Msg("Failed to generate SQL query: ", <<"JSON.parse">>)
\* the messages of the errors the call of the generator raises: one of them
\* quotes the name of a tool
ApiError == Msg("api error", <<"openai">>)
ApiErrorNamingTool == Msg("Unknown tool: ", <<"openai">>)
ApiErrors == {ApiError, ApiErrorNamingTool}

\* err.message: the fixed text followed by the interpolated strings
RECURSIVE Concat(_)
Concat(parts) == IF Len(parts) = 0 THEN "" ELSE Head(parts) \o Concat(Tail(parts))
message(msg) == msg.text \o Concat(msg.arg)

\* String.prototype.includes
includes(s, phrase) ==
    \E i \in 1..(Len(s) - Len(phrase) + 1) : SubSeq(s, i, i + Len(phrase) - 1) = phrase

\* mutant: a failure outcome of the tool is answered as an internal error
ToolResponseByOutcome(toolResult) ==
    IF toolResult.success
    THEN [sent |-> TRUE, status |-> 200, error |-> "", details |-> NoMsg,
          toolResult |-> toolResult]
    ELSE [sent |-> TRUE, status |-> 500, error |-> "Internal server error",
          details |-> toolResult.error, toolResult |-> NoOutcome]

\* line 348: res.json
ToolResponse(toolResult) ==
    [sent |-> TRUE, status |-> 200, error |-> "", details |-> NoMsg,
     toolResult |-> toolResult]

\* lines 354-376: the catch of the handler
HandlerCatch(msg) ==
    IF includes(message(msg), "Failed to generate SQL query")
    THEN [sent |-> TRUE, status |-> 400, error |-> "SQL generation failed",
          details |-> msg, toolResult |-> NoOutcome]
    ELSE IF includes(message(msg), "Unknown tool")
    THEN [sent |-> TRUE, status |-> 400, error |-> "Tool not found",
          details |-> msg, toolResult |-> NoOutcome]
    ELSE [sent |-> TRUE, status |-> 500, error |-> "Internal server error",
          details |-> msg, toolResult |-> NoOutcome]

\* the variables of execute and of the database
executeVars ==
    <<pc, queries, isBulk, idx, results, connection, validationResult, error,
      outcome, trace, free, txn, committed>>

\* the handler of a request stands at an await: of the call of the driver or
\* of the generator that is in flight (showTables, describe with the table,
\* generate), of getDatabaseSchema or generateSQLQuery that has returned
\* (schemaLoaded, generated) or thrown (rejected, with the error) while the
\* handler has not resumed yet, or of execute
At(stage, table) == [stage |-> stage, table |-> table, thrown |-> NoMsg]
Rejected(msg) == [stage |-> "rejected", table |-> 0, thrown |-> msg]

\* request p is answered with resp
Answer(p, resp) ==
    /\ handler' = [handler EXCEPT ![p].stage = "responded", ![p].thrown = NoMsg]
    /\ response' = [response EXCEPT ![p] = resp]

\* a request arrives: line 292 calls getDatabaseSchema, line 116 awaits SHOW
\* TABLES
Receive(p) ==
    /\ handler[p].stage = "idle"
    /\ pc[p] = "idle"
    /\ handler' = [handler EXCEPT ![p] = At("showTables", 0)]
    /\ UNCHANGED <<executeVars, faults, generation, response>>

\* line 116 completes: line 121 awaits DESCRIBE of the first table, or, without
\* tables, getDatabaseSchema returns
ShowTablesOk(p) ==
    /\ handler[p].stage = "showTables"
    /\ handler' = [handler EXCEPT ![p] = IF Len(Tables) = 0 THEN At("schemaLoaded", 0)
                                         ELSE At("describe", 1)]
    /\ UNCHANGED <<executeVars, faults, generation, response>>

\* line 116 throws: getDatabaseSchema is rejected
ShowTablesError(p) ==
    /\ handler[p].stage = "showTables"
    /\ Fault
    /\ handler' = [handler EXCEPT ![p] = Rejected(DriverError("pool.query"))]
    /\ UNCHANGED <<executeVars, generation, response>>

\* line 121 completes for a table: the next table, or, after the last,
\* getDatabaseSchema returns the schema
DescribeOk(p) ==
    /\ handler[p].stage = "describe"
    /\ handler' = [handler EXCEPT ![p] = IF handler[p].table < Len(Tables)
                                         THEN At("describe", handler[p].table + 1)
                                         ELSE At("schemaLoaded", 0)]
    /\ UNCHANGED <<executeVars, faults, generation, response>>

\* line 121 throws: getDatabaseSchema is rejected
DescribeError(p) ==
    /\ handler[p].stage = "describe"
    /\ Fault
    /\ handler' = [handler EXCEPT ![p] = Rejected(DriverError("pool.query"))]
    /\ UNCHANGED <<executeVars, generation, response>>

\* the await of line 292 resumes with the schema: line 296 calls
\* generateSQLQuery, whose line 189 calls the generator
SchemaLoaded(p) ==
    /\ handler[p].stage = "schemaLoaded"
    /\ handler' = [handler EXCEPT ![p] = At("generate", 0)]
    /\ generation' = [generation EXCEPT ![p].calls = @ + 1]
    /\ UNCHANGED <<executeVars, faults, response>>

\* line 189 throws: the call of the generator fails and generateSQLQuery is
\* rejected
GenerateError(p) ==
    /\ handler[p].stage = "generate"
    /\ \E msg \in ApiErrors : handler' = [handler EXCEPT ![p] = Rejected(msg)]
    /\ UNCHANGED <<executeVars, faults, generation, response>>

\* line 189 completes with the answer g: lines 276-280 parse it and
\* generateSQLQuery returns what it parsed or throws the parse error
GenerateOk(p, g) ==
    /\ handler[p].stage = "generate"
    /\ generation' = [generation EXCEPT ![p].output = g]
    /\ handler' = [handler EXCEPT ![p] = IF g.kind = "unparseable" THEN Rejected(ParseError)
                                         ELSE At("generated", 0)]
    /\ UNCHANGED <<executeVars, faults, response>>

\* the await of line 296 resumes with the parsed answer: lines 298-346 build the
\* command and call execute, which runs to its first await or return; reading
\* a field of null at line 302 throws into the catch
Generated(p) ==
    LET g == generation[p].output IN
    /\ handler[p].stage = "generated"
    /\ IF g.kind = "null"
       THEN /\ Answer(p, HandlerCatch(TypeErrorMsg))
            /\ UNCHANGED <<executeVars, faults, generation>>
       ELSE LET a == cleanParameters(g) IN
            /\ handler' = [handler EXCEPT ![p] = At("execute", 0)]
            /\ queries' = [queries EXCEPT ![p] = a.queries]
            /\ isBulk' = [isBulk EXCEPT ![p] = a.isBulk]
            /\ Resume(p, Entry(a.queries, a.isBulk), <<>>)
            /\ UNCHANGED <<response, connection, free, txn, committed, faults,
                           generation>>

\* the await of line 292 or 296 resumes with the error: the catch of lines
\* 354-376 answers
Catch(p) ==
    /\ handler[p].stage = "rejected"
    /\ Answer(p, HandlerCatch(handler[p].thrown))
    /\ UNCHANGED <<executeVars, faults, generation>>

\* line 346 completes: execute has returned, line 348 answers with its outcome
SendToolResult(p) ==
    /\ handler[p].stage = "execute"
    /\ pc[p] = "done"
    /\ Answer(p, ToolResponse(outcome[p]))
    /\ UNCHANGED <<executeVars, faults, generation>>

HttpNext ==
    \E p \in Plans :
        \/ Receive(p)
        \/ ShowTablesOk(p)
        \/ ShowTablesError(p)
        \/ DescribeOk(p)
        \/ DescribeError(p)
        \/ SchemaLoaded(p)
        \/ GenerateError(p)
        \/ \E g \in GeneratorOutputs(p) : GenerateOk(p, g)
        \/ Generated(p)
        \/ Catch(p)
        \/ SendToolResult(p)
        \/ PoolQueryOk(p)
        \/ PoolQueryError(p)
        \/ GetConnectionOk(p)
        \/ GetConnectionError(p)
        \/ BeginOk(p)
        \/ BeginError(p)
        \/ TxQueryOk(p)
        \/ TxQueryError(p)
        \/ CommitOk(p)
        \/ CommitError(p)
        \/ RollbackRejectedOk(p)
        \/ RollbackRejectedError(p)
        \/ RollbackCatchOk(p)
        \/ RollbackCatchError(p)

HttpSpec == Init /\ [][HttpNext]_vars

(***************************************************************************)
(* Vocabulary of the properties.                                           *)
(***************************************************************************)
Positions(p) == 1..Len(trace[p])
Statements(p) == 1..Len(queries[p].items)

\* the call has been made with a plan marked bulk that holds 2+ statements
BulkMulti(p) ==
    /\ pc[p] # "idle"
    /\ queries[p].isArray
    /\ isBulk[p]
    /\ Len(queries[p].items) >= 2

\* the call has been made with an array that is not such a plan
NotBulkMulti(p) ==
    /\ pc[p] # "idle"
    /\ queries[p].isArray
    /\ ~(isBulk[p] /\ Len(queries[p].items) >= 2)

\* validateQuery on each statement request of the catalogue
Verdict == [stmt \in StatementRequests |-> validateQuery(stmt.query, stmt.operation)]

Issues(p, call) == \E n \in Positions(p) : trace[p][n].ev = call
IsQueryEvent(e) == e.ev \in {"pool.query", "connection.query"}
Rejects(p, k) ==
    \E n \in Positions(p) :
        trace[p][n].ev = "validate" /\ trace[p][n].st = "rejected" /\ trace[p][n].idx = k
\* statement j of call p was executed by the database and is a write
ExecutedWrite(p, j) ==
    \E n \in Positions(p) :
        /\ IsQueryEvent(trace[p][n])
        /\ trace[p][n].idx = j
        /\ trace[p][n].st = "ok"
        /\ ~IsSelectText(trace[p][n].query)

\* the pool.query of statement k of call p raised an error
PoolQueryFails(p, k) ==
    \E n \in Positions(p) :
        trace[p][n].ev = "pool.query" /\ trace[p][n].st = "error" /\ trace[p][n].idx = k

\* the number of events of call p that are the named call in state st
CountEvents(p, call, st) ==
    Cardinality({n \in Positions(p) : trace[p][n].ev = call /\ trace[p][n].st = st})

\* beginTransaction, a statement or commit raised a driver error
IsTxFailure(e) ==
    /\ e.ev \in {"beginTransaction", "connection.query", "commit"}
    /\ e.st = "error"

\* statement k of call p, once the call is made with strings for its text and label
IsStatement(p, k) ==
    /\ pc[p] # "idle"
    /\ k \in Statements(p)
    /\ queries[p].items[k].query.type = "string"
    /\ queries[p].items[k].operation.type = "string"
TextOf(p, k) == queries[p].items[k].query.chars
LabelOf(p, k) == queries[p].items[k].operation.chars

\* validateQuery answered st for statement k of call p
ValidatedAs(p, k, st) ==
    \E n \in Positions(p) :
        trace[p][n].ev = "validate" /\ trace[p][n].idx = k /\ trace[p][n].st = st
\* statement k of call p went to the driver
Sent(p, k) ==
    \E n \in Positions(p) : IsQueryEvent(trace[p][n]) /\ trace[p][n].idx = k

\* the phrase stands in s at position i, in any letter case
OccursAt(phrase, s, i) ==
    /\ i + Len(phrase) - 1 <= Len(s)
    /\ \A j \in 1..Len(phrase) : Canonicalize(s[i + j - 1]) = Canonicalize(phrase[j])
Contains(phrase, s) == \E i \in 1..Len(s) : OccursAt(phrase, s, i)

\* the leading keyword of a text: the letters its trimmed form starts with, in
\* upper case
IsLetter(c) == Canonicalize(c) \in {UpperCase[i] : i \in 1..Len(UpperCase)}
LeadingKeyword(s) ==
    LET t == toUpperCase(trim(s))
        ends == {n \in 0..Len(t) : \A i \in 1..n : IsLetter(t[i])}
    IN  SubSeq(t, 1, CHOOSE n \in ends : \A m \in ends : m <= n)

DestructivePhrases ==
    {K_DROP \o <<" ">> \o K_TABLE, K_DROP \o <<" ">> \o K_DATABASE, K_TRUNCATE,
     K_ALTER \o <<" ">> \o K_TABLE, K_CREATE \o <<" ">> \o K_TABLE}

\* DELETE FROM ... WHERE 1=1 or UPDATE ... SET ... WHERE 1=1, whatever stands
\* for the dots
TautologyPhrase == K_WHERE \o <<" ", "1", "=", "1">>
DeleteFromPhrase == K_DELETE \o <<" ">> \o K_FROM
MassMutationForm(s) ==
    \/ \E i, j \in 1..Len(s) :
        /\ OccursAt(DeleteFromPhrase, s, i)
        /\ j >= i + Len(DeleteFromPhrase)
        /\ OccursAt(TautologyPhrase, s, j)
    \/ \E i, j, k \in 1..Len(s) :
        /\ OccursAt(K_UPDATE, s, i)
        /\ j >= i + Len(K_UPDATE)
        /\ OccursAt(K_SET, s, j)
        /\ k >= j + Len(K_SET)
        /\ OccursAt(TautologyPhrase, s, k)


\* the Execution Result of statement i of call p: the formatted form of what the
\* driver answered to it
ExecutedAt(p, i, m) ==
    IsQueryEvent(trace[p][m]) /\ trace[p][m].idx = i /\ trace[p][m].st = "ok"
Executed(p, i) == \E m \in Positions(p) : ExecutedAt(p, i, m)
ExecutionResult(p, i) ==
    LET n == CHOOSE m \in Positions(p) : ExecutedAt(p, i, m)
    IN  formatQueryResult(trace[p][n].raw, queries[p].items[i].operation)

\* the generator's answer to request p is no JSON, or is JSON but no plan: the
\* JSON null, an object without an array `queries`, or an array `queries` with
\* a statement that lacks its text or its operation label
Malformed(p) ==
    LET g == generation[p].output IN
    \/ g.kind = "unparseable"
    \/ g.kind = "null"
    \/ g.kind = "object" /\ g.queries.json # "array"
    \/ /\ g.kind = "object"
       /\ g.queries.json = "array"
       /\ \E k \in 1..Len(g.queries.items) :
            \/ g.queries.items[k].query.type # "string"
            \/ g.queries.items[k].operation.type # "string"

\* a statement of request p raised a driver error at position n of the trace
StatementFailsAt(p, n) == IsQueryEvent(trace[p][n]) /\ trace[p][n].st = "error"

\* the connection that getConnection gave to call p (NoConn: none so far)
AcquiredConn(p) ==
    IF CountEvents(p, "getConnection", "ok") = 0 THEN NoConn
    ELSE trace[p][CHOOSE n \in Positions(p) :
                     trace[p][n].ev = "getConnection" /\ trace[p][n].st = "ok"].conn
\* the calls that execute makes on a connection
ConnectionCalls == {"beginTransaction", "connection.query", "commit", "rollback", "release"}

(***************************************************************************)
(* C1: in the transactional strategy, once a statement of the plan is      *)
(* rejected by the validator, rollback is issued, commit is never issued,  *)
(* no write of the plan is in the committed database state, and execute    *)
(* returns a failure.                                                      *)
(***************************************************************************)
C1_RejectionRollsBack ==
    \A p \in Plans :
        (BulkMulti(p) /\ \E k \in Statements(p) : Rejects(p, k)) =>
            /\ Issues(p, "rollback")
            /\ ~Issues(p, "commit")
            /\ \A j \in Statements(p) : <<p, j>> \notin committed
            /\ pc[p] = "done" => ~outcome[p].success

\* execute has returned from a bulk plan whose statement 1 wrote and whose
\* statement 2 was rejected
C1_Witness ==
    \E p \in Plans :
        /\ pc[p] = "done"
        /\ BulkMulti(p)
        /\ ExecutedWrite(p, 1)
        /\ Rejects(p, 2)

(***************************************************************************)
(* C2: in both strategies every statement sent to the driver comes right   *)
(* after a validation of that same statement (same position, text and      *)
(* operation of the plan) that validateQuery accepts.                      *)
(***************************************************************************)
C2_SentOnlyAfterValid ==
    \A p \in Plans : \A n \in Positions(p) :
        LET e == trace[p][n] IN
        IsQueryEvent(e) =>
            /\ n > 1
            /\ LET v == trace[p][n - 1]
                   stmt == queries[p].items[e.idx]
               IN  /\ v.ev = "validate"
                   /\ v.st = "valid"
                   /\ v.idx = e.idx
                   /\ v.query = stmt.query
                   /\ v.operation = stmt.operation
                   /\ e.query = stmt.query
                   /\ ~Verdict[stmt].threw
                   /\ Verdict[stmt].valid

\* a sequential plan and a transactional plan have each sent a statement, and
\* the transactional one has had a statement rejected
C2_Witness ==
    \E p, o \in Plans :
        /\ NotBulkMulti(p)
        /\ Issues(p, "pool.query")
        /\ BulkMulti(o)
        /\ Issues(o, "connection.query")
        /\ \E k \in Statements(o) : Rejects(o, k)

(***************************************************************************)
(* C3: execute acquires a connection exactly when isBulk is true and       *)
(* `queries` is an array of more than one statement, and calls             *)
(* beginTransaction exactly when it got that connection; a transactional   *)
(* plan never uses pool.query, and any other plan makes no driver call but *)
(* pool.query.                                                             *)
(***************************************************************************)
C3_TransactionIffBulkMulti ==
    \A p \in Plans :
        pc[p] # "idle" =>
            /\ Issues(p, "getConnection") <=>
                   (queries[p].isArray /\ isBulk[p] /\ Len(queries[p].items) > 1)
            /\ Issues(p, "beginTransaction") <=>
                   \E n \in Positions(p) :
                       trace[p][n].ev = "getConnection" /\ trace[p][n].st = "ok"
            /\ Issues(p, "getConnection") => ~Issues(p, "pool.query")
            /\ ~Issues(p, "getConnection") =>
                   \A n \in Positions(p) : trace[p][n].ev \in {"validate", "pool.query"}

\* a bulk plan of one statement has run on the pool while a bulk plan of two
\* statements has begun a transaction
C3_Witness ==
    \E p, o \in Plans :
        /\ pc[p] = "done"
        /\ isBulk[p]
        /\ Len(queries[p].items) = 1
        /\ Issues(p, "pool.query")
        /\ outcome[p].success
        /\ BulkMulti(o)
        /\ \E n \in Positions(o) :
               trace[o][n].ev = "beginTransaction" /\ trace[o][n].st = "ok"

(***************************************************************************)
(* C4: in the sequential strategy, when statement k is rejected or its     *)
(* pool.query raises an error, statements 1..k-1 have been executed, their *)
(* writes stay in the committed state, no rollback is issued, and execute  *)
(* returns a failure that carries the reason of statement k.               *)
(***************************************************************************)
C4_SequentialKeepsEarlierEffects ==
    \A p \in Plans : \A k \in Statements(p) :
        (NotBulkMulti(p) /\ (Rejects(p, k) \/ PoolQueryFails(p, k))) =>
            LET stmt == queries[p].items[k] IN
            /\ \A j \in 1..(k - 1) :
                /\ \E n \in Positions(p) :
                       /\ trace[p][n].ev = "pool.query"
                       /\ trace[p][n].idx = j
                       /\ trace[p][n].st = "ok"
                /\ ~IsSelectText(queries[p].items[j].query) => <<p, j>> \in committed
            /\ ~Issues(p, "rollback")
            /\ pc[p] = "done"
            /\ outcome[p] =
                   Failure(IF Rejects(p, k)
                           THEN Verdict[stmt].error
                           ELSE DriverError("pool.query"))

\* a plan that is not bulk wrote with statement 1 and had statement 2 rejected
\* for a mislabelled operation
C4_Witness ==
    \E p \in Plans :
        /\ NotBulkMulti(p)
        /\ ~isBulk[p]
        /\ ExecutedWrite(p, 1)
        /\ Rejects(p, 2)
        /\ <<p, 1>> \in committed
        /\ outcome[p] = Failure(MismatchError(K_SELECT))

(***************************************************************************)
(* C5: a call holds a connection exactly while it is suspended at a driver  *)
(* call on that connection; whenever execute has returned, by whatever     *)
(* exit path, the call holds no connection and has released once each      *)
(* connection it acquired; every connection no call holds is idle in the   *)
(* pool.                                                                   *)
(***************************************************************************)
C5_ConnectionReleased ==
    /\ free = Conns \ {connection[p] : p \in Plans}
    /\ \A p \in Plans :
        /\ connection[p] # NoConn <=>
               pc[p] \in {"beginTransaction", "connection.query", "commit",
                          "rollbackRejected", "rollbackCatch"}
        /\ pc[p] = "done" =>
            /\ connection[p] = NoConn
            /\ CountEvents(p, "release", "ok") = CountEvents(p, "getConnection", "ok")

\* execute has returned after a rejection whose rollback failed, and the rollback
\* of the catch block failed as well
C5_Witness ==
    \E p \in Plans :
        /\ pc[p] = "done"
        /\ \E k \in Statements(p) : Rejects(p, k)
        /\ CountEvents(p, "rollback", "error") = 2
        /\ CountEvents(p, "release", "ok") = 1
        /\ connection[p] = NoConn

(***************************************************************************)
(* C6: in the transactional strategy, when beginTransaction, a statement   *)
(* or commit raises a driver error, rollback is issued next, nothing is    *)
(* validated, sent (so the failed statement is not retried) or committed   *)
(* afterwards, and once execute has returned the connection is released    *)
(* and the outcome is a failure that carries the message of the driver's   *)
(* error: the error of the failed call or, when the rollback raises an     *)
(* error too, the error of the rollback.                                   *)
(***************************************************************************)
C6_DriverErrorRollsBack ==
    \A p \in Plans : \A n \in Positions(p) :
        IsTxFailure(trace[p][n]) =>
            /\ n < Len(trace[p])
            /\ trace[p][n + 1].ev = "rollback"
            /\ \A m \in (n + 1)..Len(trace[p]) : trace[p][m].ev \in {"rollback", "release"}
            /\ CountEvents(p, "rollback", "ok") + CountEvents(p, "rollback", "error")
                   + CountEvents(p, "rollback", "pending") = 1
            /\ pc[p] = "done" =>
                /\ connection[p] = NoConn
                /\ trace[p][Len(trace[p])].ev = "release"
                /\ outcome[p] =
                       Failure(DriverError(IF trace[p][n + 1].st = "ok"
                                           THEN trace[p][n].ev
                                           ELSE "rollback"))

\* statement 1 of a transactional plan wrote, statement 2 raised a driver error,
\* the rollback went through and execute returned the statement's error
C6_Witness ==
    \E p \in Plans :
        /\ pc[p] = "done"
        /\ ExecutedWrite(p, 1)
        /\ \E n \in Positions(p) :
               /\ trace[p][n].ev = "connection.query"
               /\ trace[p][n].idx = 2
               /\ trace[p][n].st = "error"
        /\ CountEvents(p, "rollback", "ok") = 1
        /\ outcome[p] = Failure(DriverError("connection.query"))
        /\ <<p, 1>> \notin committed

(***************************************************************************)
(* C7: commit is issued only when every statement of the plan, in plan     *)
(* order, has been validated as valid and then executed without error on   *)
(* the connection; a success returned by a transactional plan follows a    *)
(* successful commit and has isBulk true, totalQueries equal to the number *)
(* of statements and one result per statement.                             *)
(***************************************************************************)
C7_CommitAfterAllStatements ==
    \A p \in Plans :
        /\ \A n \in Positions(p) :
            trace[p][n].ev = "commit" =>
                /\ n = 2 * Len(queries[p].items) + 3
                /\ \A i \in Statements(p) :
                    /\ trace[p][2 * i + 1].ev = "validate"
                    /\ trace[p][2 * i + 1].idx = i
                    /\ trace[p][2 * i + 1].st = "valid"
                    /\ trace[p][2 * i + 2].ev = "connection.query"
                    /\ trace[p][2 * i + 2].idx = i
                    /\ trace[p][2 * i + 2].st = "ok"
        /\ (pc[p] = "done" /\ BulkMulti(p) /\ outcome[p].success) =>
            /\ CountEvents(p, "commit", "ok") = 1
            /\ outcome[p].isBulk
            /\ outcome[p].totalQueries = Len(queries[p].items)
            /\ Len(outcome[p].results) = Len(queries[p].items)

\* a transactional plan has committed and returned its results
C7_Witness ==
    \E p \in Plans :
        /\ pc[p] = "done"
        /\ BulkMulti(p)
        /\ outcome[p].success
        /\ CountEvents(p, "commit", "ok") = 1
        /\ \A j \in Statements(p) : <<p, j>> \in committed

(***************************************************************************)
(* C8: a plan of at most one statement never asks for a connection nor     *)
(* begins a transaction, whatever isBulk, and a success it returns has     *)
(* isBulk false; the isBulk of every returned success is true exactly when *)
(* the call began a transaction.                                           *)
(***************************************************************************)
C8_FlagTellsStrategy ==
    \A p \in Plans :
        pc[p] # "idle" =>
            /\ (queries[p].isArray /\ Len(queries[p].items) <= 1) =>
                /\ ~Issues(p, "getConnection")
                /\ ~Issues(p, "beginTransaction")
                /\ (pc[p] = "done" /\ outcome[p].success) => ~outcome[p].isBulk
            /\ (pc[p] = "done" /\ outcome[p].success) =>
                (outcome[p].isBulk <=> Issues(p, "beginTransaction"))

\* a plan of one statement asked with isBulk true has returned a success
C8_Witness ==
    \E p \in Plans :
        /\ pc[p] = "done"
        /\ isBulk[p]
        /\ queries[p].isArray
        /\ Len(queries[p].items) = 1
        /\ outcome[p].success
        /\ ~outcome[p].isBulk

(***************************************************************************)
(* C9: in both strategies only the last driver call of a plan can be in    *)
(* flight; the statements are validated and sent in plan order, statement  *)
(* i+1 being validated only after the execution of statement i completed   *)
(* without error; and results[i] is the formatted result the driver gave   *)
(* for statement i.                                                        *)
(***************************************************************************)
C9_PlanOrder ==
    \A p \in Plans :
        /\ \A n \in Positions(p) : n < Len(trace[p]) => trace[p][n].st # "pending"
        /\ \A n \in Positions(p) :
            LET e == trace[p][n] IN
            /\ e.ev = "validate" =>
                /\ e.idx = 1 + Cardinality({m \in 1..(n - 1) : trace[p][m].ev = "validate"})
                /\ e.idx > 1 =>
                    \E m \in 1..(n - 1) :
                        /\ IsQueryEvent(trace[p][m])
                        /\ trace[p][m].idx = e.idx - 1
                        /\ trace[p][m].st = "ok"
            /\ IsQueryEvent(e) =>
                e.idx = 1 + Cardinality({m \in 1..(n - 1) : IsQueryEvent(trace[p][m])})
        /\ Len(results[p]) =
               Cardinality({n \in Positions(p) : IsQueryEvent(trace[p][n]) /\ trace[p][n].st = "ok"})
        /\ \A i \in 1..Len(results[p]) :
            \E n \in Positions(p) :
                /\ IsQueryEvent(trace[p][n])
                /\ trace[p][n].idx = i
                /\ trace[p][n].st = "ok"
                /\ results[p][i] =
                       formatQueryResult(trace[p][n].raw, queries[p].items[i].operation)

\* a plan has executed an INSERT and then a SELECT, whose results differ
C9_Witness ==
    \E p \in Plans :
        /\ pc[p] = "done"
        /\ Len(results[p]) = 2
        /\ queries[p].items[1] = S_insert
        /\ queries[p].items[2] = S_select
        /\ results[p][2].count = 1

(***************************************************************************)
(* C10: in both strategies, after a statement of a plan is rejected by the *)
(* validator the plan validates nothing more and sends no statement, and a *)
(* plan has at most one rejection.                                         *)
(***************************************************************************)
C10_RejectionEndsPlan ==
    \A p \in Plans :
        /\ CountEvents(p, "validate", "rejected") <= 1
        /\ \A n \in Positions(p) :
            (trace[p][n].ev = "validate" /\ trace[p][n].st = "rejected") =>
                \A m \in (n + 1)..Len(trace[p]) :
                    trace[p][m].ev \in {"rollback", "release"}

\* a sequential plan has returned after rejecting statement 1 of 2, and a
\* transactional plan has returned after a rejection
C10_Witness ==
    \E p, o \in Plans :
        /\ pc[p] = "done"
        /\ NotBulkMulti(p)
        /\ Len(queries[p].items) >= 2
        /\ Rejects(p, 1)
        /\ pc[o] = "done"
        /\ BulkMulti(o)
        /\ \E k \in Statements(o) : Rejects(o, k)

(***************************************************************************)
(* C11: in either strategy, once a statement is rejected by the validator  *)
(* and execute has returned, whatever the outcome of the rollback, the     *)
(* outcome is a failure that carries the validator's reason for that       *)
(* statement and nothing else (no per-statement results).                  *)
(***************************************************************************)
C11_RejectionReasonReturned ==
    \A p \in Plans : \A k \in Statements(p) :
        (pc[p] = "done" /\ Rejects(p, k)) =>
            outcome[p] = Failure(Verdict[queries[p].items[k]].error)

(***************************************************************************)
(* C12: whenever the leading keyword of a statement's trimmed text, in     *)
(* upper case, differs from the declared operation in upper case (a label  *)
(* that is empty or a strict prefix of the keyword included),              *)
(* validateQuery rejects the statement and execute returns the             *)
(* operation-mismatch reason.                                              *)
(***************************************************************************)
C12_MismatchRejected ==
    \A p \in Plans : \A k \in Statements(p) :
        (IsStatement(p, k) /\ LeadingKeyword(TextOf(p, k)) # toUpperCase(LabelOf(p, k))) =>
            /\ ValidatedAs(p, k, "rejected")
            /\ outcome[p] = Failure(MismatchError(LabelOf(p, k)))

(***************************************************************************)
(* C13: a statement whose text contains DROP TABLE, DROP DATABASE,         *)
(* TRUNCATE, ALTER TABLE or CREATE TABLE, in any letter case and anywhere  *)
(* in the text, is rejected by validateQuery whatever its declared         *)
(* operation, is never sent to the database, and execute returns a         *)
(* failure.                                                                *)
(***************************************************************************)
C13_DestructiveRejected ==
    \A p \in Plans : \A k \in Statements(p) :
        (IsStatement(p, k) /\ \E ph \in DestructivePhrases : Contains(ph, TextOf(p, k))) =>
            /\ ValidatedAs(p, k, "rejected")
            /\ ~Sent(p, k)
            /\ pc[p] = "done"
            /\ ~outcome[p].success

\* a text that holds a destructive phrase in lower or mixed case behind a SELECT,
\* labelled SELECT, was rejected as dangerous
C13_Witness ==
    \E p \in Plans :
        /\ IsStatement(p, 1)
        /\ toUpperCase(LabelOf(p, 1)) = K_SELECT
        /\ LeadingKeyword(TextOf(p, 1)) = K_SELECT
        /\ \E ph \in DestructivePhrases :
            /\ Contains(ph, TextOf(p, 1))
            /\ \A i \in 1..Len(TextOf(p, 1)) :
                   OccursAt(ph, TextOf(p, 1), i) =>
                       i > 1 /\ SubSeq(TextOf(p, 1), i, i + Len(ph) - 1) # ph
        /\ outcome[p] = Failure(DangerousError)

(***************************************************************************)
(* C14: a statement whose text has the form DELETE FROM ... WHERE 1=1 or   *)
(* UPDATE ... SET ... WHERE 1=1, in any letter case and with any           *)
(* characters, line breaks included, for the dots, is rejected by          *)
(* validateQuery and never sent to the database.                           *)
(***************************************************************************)
C14_TautologyRejected ==
    \A p \in Plans : \A k \in Statements(p) :
        (IsStatement(p, k) /\ MassMutationForm(TextOf(p, k))) =>
            /\ ValidatedAs(p, k, "rejected")
            /\ ~Sent(p, k)

(***************************************************************************)
(* C15: an UPDATE or DELETE statement whose text holds no WHERE is         *)
(* rejected by validateQuery and never sent to the database.               *)
(***************************************************************************)
C15_NoWhereRejected ==
    \A p \in Plans : \A k \in Statements(p) :
        (/\ IsStatement(p, k)
         /\ LeadingKeyword(TextOf(p, k)) \in {K_UPDATE, K_DELETE}
         /\ ~Contains(K_WHERE, TextOf(p, k))) =>
            /\ ValidatedAs(p, k, "rejected")
            /\ ~Sent(p, k)

(***************************************************************************)
(* C16: a statement whose declared operation is none of SELECT, INSERT,    *)
(* UPDATE, DELETE (in any letter case) is not accepted by validateQuery    *)
(* and never sent to the database.                                         *)
(***************************************************************************)
C16_OnlyToolOperations ==
    \A p \in Plans : \A k \in Statements(p) :
        (IsStatement(p, k) /\ toUpperCase(LabelOf(p, k)) \notin ToolOperations) =>
            /\ ~ValidatedAs(p, k, "valid")
            /\ ~Sent(p, k)

(***************************************************************************)
(* C17: when execute returns a success, totalQueries is the number of      *)
(* statements of the plan, isBulk tells whether the plan ran in a          *)
(* transaction, and `results` is the Execution Result of the statement     *)
(* itself when the plan holds exactly one statement, and otherwise the     *)
(* sequence of the Execution Results of the statements, in plan order.     *)
(***************************************************************************)
C17_PlanResultShape ==
    \A p \in Plans :
        (pc[p] = "done" /\ outcome[p].success) =>
            LET n == Len(queries[p].items) IN
            /\ outcome[p].totalQueries = n
            /\ outcome[p].isBulk <=> Issues(p, "beginTransaction")
            /\ \A i \in 1..n : Executed(p, i)
            /\ IF n = 1
               THEN outcome[p].results = ExecutionResult(p, 1)
               ELSE outcome[p].results = [i \in 1..n |-> ExecutionResult(p, i)]

\* a plan of one statement returned that statement's result, while a plan of two
\* statements returned a sequence of two results from its transaction
C17_Witness ==
    \E p, o \in Plans :
        /\ pc[p] = "done"
        /\ outcome[p].success
        /\ Len(queries[p].items) = 1
        /\ outcome[p].results = results[p][1]
        /\ pc[o] = "done"
        /\ outcome[o].success
        /\ outcome[o].isBulk
        /\ outcome[o].totalQueries = 2
        /\ Len(outcome[o].results) = 2
        /\ outcome[o].results[1] # outcome[o].results[2]

(***************************************************************************)
(* C18 as stated: when a statement of the plan raises a driver error, the  *)
(* request is answered with status 500 and the driver's message.           *)
(***************************************************************************)
C18_DriverErrorIs500 ==
    \A p \in Plans : \A n \in Positions(p) :
        (response[p].sent /\ StatementFailsAt(p, n)) =>
            /\ response[p].status = 500
            /\ response[p].details = DriverError(trace[p][n].ev)

(***************************************************************************)
(* C18 as amended: when a statement of the plan raises a driver error, the *)
(* request is answered with status 200 and a toolResult that is the        *)
(* failure outcome of execute, carrying the message of the driver's error: *)
(* the statement's error or, when the rollback of the transaction raises   *)
(* an error too, the rollback's.                                           *)
(***************************************************************************)
C18_DriverErrorIsToolFailure ==
    \A p \in Plans : \A n \in Positions(p) :
        (response[p].sent /\ StatementFailsAt(p, n)) =>
            /\ response[p].status = 200
            /\ response[p].toolResult = outcome[p]
            /\ response[p].toolResult =
                   Failure(DriverError(
                       IF trace[p][n].ev = "pool.query" \/ trace[p][n + 1].st = "ok"
                       THEN trace[p][n].ev
                       ELSE "rollback"))

\* one request was answered after its pool.query failed, another after its
\* connection.query failed and the transaction was rolled back
C18_Witness ==
    \E p, o \in Plans :
        /\ response[p].sent
        /\ response[p].status = 200
        /\ response[p].toolResult = Failure(DriverError("pool.query"))
        /\ response[o].sent
        /\ response[o].status = 200
        /\ response[o].toolResult = Failure(DriverError("connection.query"))
        /\ CountEvents(o, "rollback", "ok") = 1

(***************************************************************************)
(* C19: when the generator's answer does not parse, or parses but is no    *)
(* plan (the JSON null, an object without a sequence `queries`, a          *)
(* statement without text or operation label), the request is answered     *)
(* with status 400, no statement is sent to the database and the generator *)
(* is called once.                                                         *)
(***************************************************************************)
C19_MalformedIs400 ==
    \A p \in Plans :
        (response[p].sent /\ Malformed(p)) =>
            /\ response[p].status = 400
            /\ \A n \in Positions(p) : ~IsQueryEvent(trace[p][n])
            /\ generation[p].calls = 1

(***************************************************************************)
(* C20: when the driver answers a statement with a sequence of N rows and  *)
(* the statement's operation label is SELECT in any letter case, the       *)
(* formatted result has exactly the fields data, count and operation,      *)
(* count is N and data is that sequence of rows, unchanged.                *)
(***************************************************************************)
C20_SelectRoundTrip ==
    \A p \in Plans : \A i \in 1..Len(results[p]) : \A m \in Positions(p) :
        (/\ ExecutedAt(p, i, m)
         /\ trace[p][m].raw.isRows
         /\ toUpperCase(LabelOf(p, i)) = K_SELECT) =>
            LET out == results[p][i] IN
            /\ DOMAIN out = {"data", "count", "operation"}
            /\ out.count = Len(trace[p][m].raw.rows)
            /\ out.data = trace[p][m].raw
            /\ out.operation = queries[p].items[i].operation

\* two different rows came back under a label that is not in upper case
C20_Witness ==
    \E p \in Plans :
        /\ Len(results[p]) = 1
        /\ LabelOf(p, 1) # K_SELECT
        /\ toUpperCase(LabelOf(p, 1)) = K_SELECT
        /\ results[p][1].data = Rows(<<"r2", "r1">>)
        /\ results[p][1].count = 2

(***************************************************************************)
(* C21: for every statement that passes validation, the text and the       *)
(* parameter sequence sent to the driver are exactly those of the request  *)
(* (the empty sequence when the request leaves the parameters out): no     *)
(* trimming, no change of letter case, no reordering.  Validation performs *)
(* no database operation: a validation event is on no connection, and a    *)
(* sequential call whose first statement is rejected has done nothing else *)
(* and left the database as it was.                                        *)
(***************************************************************************)
C21_SentUnchanged ==
    \A p \in Plans :
        /\ \A n \in Positions(p) :
            LET e == trace[p][n] IN
            /\ IsQueryEvent(e) =>
                LET stmt == queries[p].items[e.idx] IN
                /\ ValidatedAs(p, e.idx, "valid")
                /\ e.query = stmt.query
                /\ e.parameters = IF stmt.parameters.type = "undefined"
                                  THEN Arr(<<>>) ELSE stmt.parameters
            /\ e.ev = "validate" =>
                /\ e.conn = NoConn
                /\ e.query = queries[p].items[e.idx].query
                /\ e.parameters = queries[p].items[e.idx].parameters
        /\ (NotBulkMulti(p) /\ Rejects(p, 1)) =>
            /\ Len(trace[p]) = 1
            /\ results[p] = <<>>
            /\ \A w \in committed : w[1] # p

\* a text with a leading blank and lower-case letters went to the pool as it
\* was, with the empty sequence for the parameters the request left out, and
\* the other call sent the parameters of its request
C21_Witness ==
    \E p, o \in Plans :
        /\ Executed(p, 1)
        /\ TextOf(p, 1) # toUpperCase(trim(TextOf(p, 1)))
        /\ queries[p].items[1].parameters.type = "undefined"
        /\ Executed(o, 1)
        /\ queries[o].items[1].parameters.type # "undefined"
        /\ queries[o].items[1].parameters # Arr(<<>>)

(***************************************************************************)
(* C22: when several calls run interleaved at every database call, a       *)
(* transactional call holds a connection that no other call holds at that  *)
(* time; its statements, its commit and its rollbacks all run on that      *)
(* connection; the writes pending on a connection are those of the call    *)
(* that acquired it; a rollback leaves the effects of the other call in    *)
(* place (what a call executed in its open transaction stays pending there *)
(* until its own commit or rollback, what a sequential call executed and   *)
(* what a committed call executed stays durable); and the results of a     *)
(* call are the formatted answers to its own statements.                   *)
(***************************************************************************)
C22_Isolation ==
    \A p \in Plans :
        /\ connection[p] # NoConn =>
            /\ connection[p] \notin free
            /\ connection[p] = AcquiredConn(p)
            /\ \A o \in Plans \ {p} : connection[o] # connection[p]
        /\ \A n \in Positions(p) :
            /\ trace[p][n].ev \in ConnectionCalls =>
                (AcquiredConn(p) # NoConn /\ trace[p][n].conn = AcquiredConn(p))
            /\ trace[p][n].ev \in {"validate", "pool.query"} => trace[p][n].conn = NoConn
        /\ \A c \in Conns : \A w \in txn[c].writes :
            /\ AcquiredConn(w[1]) = c
            /\ \A o \in Plans :
                (connection[o] = c /\ CountEvents(o, "beginTransaction", "ok") = 1) => w[1] = o
        /\ \A j \in Statements(p) :
            /\ (/\ ExecutedWrite(p, j)
                /\ NotBulkMulti(p) \/ CountEvents(p, "commit", "ok") = 1) =>
                    <<p, j>> \in committed
            /\ (/\ ExecutedWrite(p, j)
                /\ pc[p] \in {"connection.query", "commit", "rollbackRejected",
                              "rollbackCatch"}) =>
                    /\ <<p, j>> \in txn[connection[p]].writes
                    /\ <<p, j>> \notin committed
        /\ \A i \in 1..Len(results[p]) :
            Executed(p, i) /\ results[p][i] = ExecutionResult(p, i)

\* two transactions are open at once on two connections, each with a pending
\* write of its own call: one call has had its second statement rejected and
\* its rollback is in flight, the other has executed both statements and its
\* commit is in flight
C22_Witness ==
    \E p, o \in Plans :
        /\ p # o
        /\ BulkMulti(p) /\ BulkMulti(o)
        /\ connection[p] # NoConn /\ connection[o] # NoConn
        /\ connection[p] # connection[o]
        /\ pc[p] = "rollbackRejected"
        /\ ExecutedWrite(p, 1)
        /\ txn[connection[p]].writes = {<<p, 1>>}
        /\ pc[o] = "commit"
        /\ txn[connection[o]].writes = {<<o, 1>>, <<o, 2>>}
        /\ committed = {}

(***************************************************************************)
(* C23: in a transactional call, release is called once for the connection *)
(* that getConnection gave and is the last operation on it: no statement,  *)
(* commit or rollback of the call comes after the release, no release      *)
(* happens before the call ends, and when getConnection failed the call    *)
(* ends without a release and without any call on a connection.            *)
(***************************************************************************)
C23_ReleaseOnceAndLast ==
    \A p \in Plans :
        LET releases == {n \in Positions(p) : trace[p][n].ev = "release"} IN
        /\ Cardinality(releases) <= 1
        /\ \A n \in releases :
            /\ n = Len(trace[p])
            /\ pc[p] = "done"
            /\ AcquiredConn(p) # NoConn
            /\ trace[p][n].conn = AcquiredConn(p)
            /\ connection[p] = NoConn
        /\ (pc[p] = "done" /\ AcquiredConn(p) # NoConn) => Cardinality(releases) = 1
        /\ (pc[p] # "done" /\ AcquiredConn(p) # NoConn) => connection[p] = AcquiredConn(p)
        /\ CountEvents(p, "getConnection", "error") = 1 =>
            /\ pc[p] = "done"
            /\ releases = {}
            /\ AcquiredConn(p) = NoConn
            /\ \A n \in Positions(p) : trace[p][n].ev \notin ConnectionCalls

\* one call released its connection after a failed commit and a rollback, the
\* other ended on a failed getConnection with nothing to release
C23_Witness ==
    \E p, o \in Plans :
        /\ pc[p] = "done"
        /\ CountEvents(p, "commit", "error") = 1
        /\ CountEvents(p, "rollback", "ok") = 1
        /\ trace[p][Len(trace[p])].ev = "release"
        /\ CountEvents(p, "release", "ok") = 1
        /\ pc[o] = "done"
        /\ CountEvents(o, "getConnection", "error") = 1
        /\ CountEvents(o, "release", "ok") = 0

(***************************************************************************)
(* C24: a transactional call returns a success outcome if and only if its  *)
(* commit succeeded; a successful commit is followed by the release alone  *)
(* (no rollback is issued after it, and none was issued before it); and    *)
(* when a failure outcome is returned the commit did not succeed and none  *)
(* of the call's writes is durable.                                        *)
(***************************************************************************)
C24_SuccessIffCommitted ==
    \A p \in Plans :
        BulkMulti(p) =>
            /\ pc[p] = "done" =>
                (outcome[p].success <=> CountEvents(p, "commit", "ok") = 1)
            /\ pc[p] # "done" => CountEvents(p, "commit", "ok") = 0
            /\ \A n \in Positions(p) :
                (trace[p][n].ev = "commit" /\ trace[p][n].st = "ok") =>
                    /\ \A m \in Positions(p) : trace[p][m].ev # "rollback"
                    /\ n + 1 = Len(trace[p])
                    /\ trace[p][n + 1].ev = "release"
                    /\ \A j \in Statements(p) : Executed(p, j)
            /\ (pc[p] = "done" /\ ~outcome[p].success) =>
                /\ CountEvents(p, "commit", "ok") = 0
                /\ \A w \in committed : w[1] # p

\* one call committed its writes and returned success; the other executed a
\* write, failed to commit, rolled back and returned a failure
C24_Witness ==
    \E p, o \in Plans :
        /\ pc[p] = "done" /\ BulkMulti(p)
        /\ outcome[p].success
        /\ <<p, 1>> \in committed
        /\ pc[o] = "done" /\ BulkMulti(o)
        /\ ~outcome[o].success
        /\ ExecutedWrite(o, 1)
        /\ CountEvents(o, "commit", "error") = 1
        /\ <<o, 1>> \notin committed

(***************************************************************************)
(* C25: execute never throws to its caller.  A call that has ended has an  *)
(* outcome with a boolean success field (and an error message when it is   *)
(* false); a call that has not ended is waiting for a driver call; once    *)
(* the driver or the validator has raised an error the call has ended with *)
(* a failure outcome or is waiting for the rollback of its catch block;    *)
(* and when `queries` is no array the call ends at once with a failure     *)
(* outcome, without any driver call.                                       *)
(***************************************************************************)
C25_AlwaysAnOutcome ==
    \A p \in Plans :
        /\ pc[p] = "done" =>
            /\ "success" \in DOMAIN outcome[p]
            /\ outcome[p].success \in BOOLEAN
            /\ ~outcome[p].success =>
                (DOMAIN outcome[p] = {"success", "error"} /\ outcome[p].error # NoMsg)
        /\ pc[p] \notin {"idle", "done"} =>
            /\ outcome[p] = NoOutcome
            /\ trace[p] # <<>>
            /\ trace[p][Len(trace[p])].st = "pending"
        /\ (\E n \in Positions(p) : trace[p][n].st \in {"error", "threw"}) =>
            /\ pc[p] \in {"done", "rollbackCatch"}
            /\ pc[p] = "done" => ~outcome[p].success
        /\ (pc[p] # "idle" /\ ~queries[p].isArray) =>
            /\ pc[p] = "done"
            /\ outcome[p] = Failure(NotArrayError)
            /\ trace[p] = <<>>
            /\ connection[p] = NoConn
            /\ \A w \in committed : w[1] # p

\* one call got a `queries` that is no array and returned the failure without
\* a driver call; the other returned a failure after both of its rollbacks
\* had raised an error
C25_Witness ==
    \E p, o \in Plans :
        /\ pc[p] = "done"
        /\ ~queries[p].isArray
        /\ outcome[p] = Failure(NotArrayError)
        /\ trace[p] = <<>>
        /\ pc[o] = "done"
        /\ CountEvents(o, "rollback", "error") = 2
        /\ outcome[o] = Failure(DriverError("rollback"))

====
